---- MODULE Spec2Model ----
(***************************************************************************)
(* Model of the operator-application engine of pb2q                        *)
(* (src/pb2q/sympy/apply_op.py) together with the expression classes it    *)
(* dispatches on (product states, particle operators, symmetrizers).       *)
(*                                                                         *)
(* An expression is a record [t, p, a]: t is the class name, p the integer *)
(* payload (labels, exponent, scalar coefficient) and a the sequence of    *)
(* sub-expressions.  A scalar is <<n, d, r>>, the number (n/d)*sqrt(r)     *)
(* with d > 0, gcd(n, d) = 1 and r square-free.                            *)
(***************************************************************************)
EXTENDS Integers, Sequences, FiniteSets, TLC

Node(t, p, a) == [t |-> t, p |-> p, a |-> a]

(***************************************************************************)
(* Scalar arithmetic (sympy Rational and sqrt of a small integer).         *)
(***************************************************************************)
Abs(x) == IF x < 0 THEN -x ELSE x

RECURSIVE Gcd(_, _)
Gcd(x, y) == IF y = 0 THEN Abs(x) ELSE Gcd(Abs(y), Abs(x) % Abs(y))

SNorm(n, d, r) ==
    IF n = 0 THEN <<0, 1, 1>>
    ELSE LET Reduced(g) == <<n \div g, d \div g, r>> IN Reduced(Gcd(n, d))

SMul(s1, s2) ==
    LET Joined(g) ==
            SNorm(s1[1] * s2[1] * g, s1[2] * s2[2], (s1[3] \div g) * (s2[3] \div g))
    IN  Joined(Gcd(s1[3], s2[3]))

\* Only scalars with the same radicand are added.
SAdd(s1, s2) ==
    SNorm(s1[1] * s2[2] + s2[1] * s1[2], s1[2] * s2[2],
          IF s1[1] = 0 THEN s2[3] ELSE s1[3])

SInv(s) ==
    SNorm((IF s[1] < 0 THEN -1 ELSE 1) * s[2], Abs(s[1]) * s[3], s[3])

RECURSIVE SPow(_, _)
SPow(s, k) ==
    IF k = 0 THEN <<1, 1, 1>>
    ELSE IF k < 0 THEN SPow(SInv(s), -k)
    ELSE SMul(s, SPow(s, k - 1))

\* sqrt(n) for an integer n >= 1
SSqrt(n) ==
    LET s == CHOOSE s \in 1..n :
                 /\ n % (s * s) = 0
                 /\ \A u \in (s + 1)..n : n % (u * u) # 0
    IN  <<s, 1, n \div (s * s)>>

SOne == <<1, 1, 1>>
SZero == <<0, 1, 1>>

(***************************************************************************)
(* Constructors of the leaves.                                             *)
(***************************************************************************)
Num(s) == Node("Num", s, <<>>)
Integer(n) == Num(<<n, 1, 1>>)
Zero == Integer(0)
One == Integer(1)

\* A Python exception travelling up the call stack.
Err(kind) == Node("Err", <<kind>>, <<>>)
ValueError == Err(1)
TypeError == Err(2)
IndexError == Err(3)
RecursionError == Err(4)

IsErr(e) == e.t = "Err"
IsNum(e) == e.t = "Num"
IsZero(e) == e.t = "Num" /\ e.p[1] = 0

RECURSIVE FirstErr(_)
FirstErr(s) ==
    IF s = <<>> THEN One
    ELSE IF IsErr(Head(s)) THEN Head(s)
    ELSE FirstErr(Tail(s))

AnyErr(s) == \E i \in 1..Len(s) : IsErr(s[i])

(***************************************************************************)
(* The class hierarchy: which isinstance() tests a node passes.            *)
(***************************************************************************)
KetClasses == {"Ket", "OrthogonalKet", "ProductKet", "UniverseKet", "FieldKet",
               "ParticleKet", "MomentumKet", "QNumberKet"}
BraClasses == {"Bra", "OrthogonalBra", "ProductBra", "UniverseBra", "FieldBra",
               "ParticleBra", "MomentumBra", "QNumberBra"}
ProductStateClasses == (KetClasses \cup BraClasses)
                         \ {"Ket", "Bra", "OrthogonalKet", "OrthogonalBra"}
OuterProductClasses == {"OuterProduct", "ParticleOuterProduct", "ProductOuterProduct"}
ProductOperatorClasses == {"ProductOperator", "FieldOperator"}
OperatorClasses == {"Operator", "IdentityOperator", "PresenceProjection",
                    "AbsenceProjection", "ParticleSwap", "ParticlePermutation",
                    "StepSymmetrizer", "StepAntisymmetrizer", "FieldFreeEvolution"}
                     \cup OuterProductClasses \cup ProductOperatorClasses
TensorProductClasses == {"TensorProduct", "ProductQExpr"} \cup ProductStateClasses
                          \cup ProductOperatorClasses

IsKetBase(e) == e.t \in KetClasses
IsBraBase(e) == e.t \in BraClasses
IsState(e) == IsKetBase(e) \/ IsBraBase(e)
IsOperator(e) == e.t \in OperatorClasses
IsTensorProduct(e) == e.t \in TensorProductClasses
IsOuterProduct(e) == e.t \in OuterProductClasses
IsAdd(e) == e.t = "Add"
IsMul(e) == e.t = "Mul"
IsPow(e) == e.t = "Pow"
IsInnerProduct(e) == e.t = "InnerProduct"
\* isinstance(lhs, (Commutator, AntiCommutator))
IsCommutator(e) == e.t \in {"Commutator", "AntiCommutator"}

RECURSIVE IsCommutative(_)
IsCommutative(e) ==
    CASE e.t \in {"Num", "InnerProduct"} -> TRUE
      [] e.t \in {"Add", "Mul", "Pow"} -> \A i \in 1..Len(e.a) : IsCommutative(e.a[i])
      [] OTHER -> FALSE

\* dual_class() of a state class
DualClass(t) ==
    CASE t = "Ket" -> "Bra"                     [] t = "Bra" -> "Ket"
      [] t = "OrthogonalKet" -> "OrthogonalBra" [] t = "OrthogonalBra" -> "OrthogonalKet"
      [] t = "ProductKet" -> "ProductBra"       [] t = "ProductBra" -> "ProductKet"
      [] t = "UniverseKet" -> "UniverseBra"     [] t = "UniverseBra" -> "UniverseKet"
      [] t = "FieldKet" -> "FieldBra"           [] t = "FieldBra" -> "FieldKet"
      [] t = "ParticleKet" -> "ParticleBra"     [] t = "ParticleBra" -> "ParticleKet"
      [] t = "MomentumKet" -> "MomentumBra"     [] t = "MomentumBra" -> "MomentumKet"
      [] t = "QNumberKet" -> "QNumberBra"       [] t = "QNumberBra" -> "QNumberKet"

(***************************************************************************)
(* Structural order of expressions: the canonical order of the terms of an *)
(* Add and of the commuting factors of a Mul (sympy's Basic.compare).      *)
(***************************************************************************)
ClassOrder == <<"Err", "Num", "InnerProduct", "Ket", "Bra", "OrthogonalKet",
                "OrthogonalBra", "MomentumKet", "MomentumBra", "QNumberKet",
                "QNumberBra", "ParticleKet", "ParticleBra", "FieldKet", "FieldBra",
                "UniverseKet", "UniverseBra", "ProductKet", "ProductBra",
                "Operator", "IdentityOperator", "PresenceProjection",
                "AbsenceProjection", "ParticleSwap", "ParticlePermutation",
                "StepSymmetrizer", "StepAntisymmetrizer", "FieldFreeEvolution",
                "Commutator", "AntiCommutator", "OuterProduct",
                "ParticleOuterProduct", "ProductOuterProduct", "ProductOperator",
                "FieldOperator", "ProductQExpr", "TensorProduct", "Pow", "Mul", "Add">>

ClassRank(t) == CHOOSE i \in 1..Len(ClassOrder) : ClassOrder[i] = t

RECURSIVE CmpInts(_, _)
CmpInts(p, q) ==
    IF Len(p) # Len(q) THEN (IF Len(p) < Len(q) THEN -1 ELSE 1)
    ELSE IF p = <<>> THEN 0
    ELSE IF Head(p) # Head(q) THEN (IF Head(p) < Head(q) THEN -1 ELSE 1)
    ELSE CmpInts(Tail(p), Tail(q))

RECURSIVE Cmp(_, _)
RECURSIVE CmpSeq(_, _)
CmpSeq(u, v) ==
    IF Len(u) # Len(v) THEN (IF Len(u) < Len(v) THEN -1 ELSE 1)
    ELSE IF u = <<>> THEN 0
    ELSE LET c == Cmp(Head(u), Head(v))
         IN  IF c # 0 THEN c ELSE CmpSeq(Tail(u), Tail(v))

Cmp(e, f) ==
    IF e = f THEN 0
    ELSE IF e.t # f.t THEN (IF ClassRank(e.t) < ClassRank(f.t) THEN -1 ELSE 1)
    ELSE LET c == CmpInts(e.p, f.p)
         IN  IF c # 0 THEN c ELSE CmpSeq(e.a, f.a)

RECURSIVE InsertSorted(_, _)
InsertSorted(e, s) ==
    IF s = <<>> THEN <<e>>
    ELSE IF Cmp(e, Head(s)) <= 0 THEN <<e>> \o s
    ELSE <<Head(s)>> \o InsertSorted(e, Tail(s))

RECURSIVE SortExprs(_)
SortExprs(s) ==
    IF s = <<>> THEN <<>> ELSE InsertSorted(Head(s), SortExprs(Tail(s)))

(***************************************************************************)
(* The evaluating constructors of sympy: Pow, Mul and Add.                 *)
(***************************************************************************)
\* o.as_base_exp()
BaseOf(o) == IF IsPow(o) THEN o.a[1] ELSE o
ExpOf(o) == IF IsPow(o) THEN o.p[1] ELSE 1

\* e.args_cnc(): the commuting factors and the non-commuting factors
RECURSIVE CountCommutative(_)
CountCommutative(s) ==
    IF s = <<>> \/ ~IsCommutative(Head(s)) THEN 0
    ELSE 1 + CountCommutative(Tail(s))

NcPart(e) ==
    IF IsMul(e) THEN SubSeq(e.a, CountCommutative(e.a) + 1, Len(e.a))
    ELSE IF IsCommutative(e) THEN <<>> ELSE <<e>>

CPart(e) ==
    IF IsMul(e)
    THEN (IF e.p = SOne THEN <<>> ELSE <<Num(e.p)>>)
           \o SubSeq(e.a, 1, CountCommutative(e.a))
    ELSE IF IsCommutative(e) THEN <<e>> ELSE <<>>

\* e.args of a Mul: coefficient first
MulArgs(e) == (IF e.p = SOne THEN <<>> ELSE <<Num(e.p)>>) \o e.a

RECURSIVE MkPow(_, _)
RECURSIVE MkMul(_)
RECURSIVE MulFold(_, _, _, _)

\* Mul._from_args(nc): no evaluation
FromArgs(nc) ==
    IF nc = <<>> THEN One
    ELSE IF Len(nc) = 1 THEN nc[1]
    ELSE Node("Mul", SOne, nc)

\* Pow.__new__ with the _eval_power hooks of the operator classes
\* (src/pb2q/operators/symm.py:133, 178; particle.py:98), integer exponents.
MkPow(b, n) ==
    LET step == b.t \in {"StepSymmetrizer", "StepAntisymmetrizer"}
        Scaled(c) ==
            IF IsNum(b) THEN c
            ELSE MkMul(<<c>> \o
                   (IF step THEN <<b>>
                    ELSE [i \in 1..CountCommutative(b.a) |-> Node("Pow", <<n>>, <<b.a[i]>>)]
                           \o (IF NcPart(b) = <<>> THEN <<>>
                               ELSE <<Node("Pow", <<n>>, <<FromArgs(NcPart(b))>>)>>)))
    IN
    CASE IsErr(b) -> b
      [] n = 0 -> One
      [] n = 1 -> b
      [] IsNum(b) \/ step \/ IsMul(b) ->
            Scaled(Num(SPow(IF step THEN SSqrt(b.p[1]) ELSE b.p, IF step THEN n - 1 ELSE n)))
      [] IsPow(b) -> MkPow(b.a[1], b.p[1] * n)
      [] b.t = "IdentityOperator" -> b
      [] b.t = "ParticleSwap" -> IF n % 2 = 0 THEN Node("IdentityOperator", <<>>, <<>>) ELSE b
      [] b.t = "ParticlePermutation" -> IF n % 2 = 0 THEN One ELSE b
      [] b.t \in {"PresenceProjection", "AbsenceProjection"} /\ n > 0 -> b
      [] OTHER -> Node("Pow", <<n>>, <<b>>)

\* Mul.flatten: todo is the queue of factors still to place, coeff the numeric
\* coefficient, cs the sorted commuting factors, ncs the ordered non-commuting ones.
MulFold(todo, coeff, cs, ncs) ==
    IF todo = <<>>
    THEN (IF coeff = SZero THEN Zero
          ELSE IF cs \o ncs = <<>> THEN Num(coeff)
          ELSE IF coeff = SOne /\ Len(cs \o ncs) = 1 THEN (cs \o ncs)[1]
          ELSE Node("Mul", coeff, cs \o ncs))
    ELSE LET o == Head(todo)
             rest == Tail(todo)
         IN  CASE IsNum(o) -> MulFold(rest, SMul(coeff, o.p), cs, ncs)
               [] IsMul(o) -> MulFold(MulArgs(o) \o rest, coeff, cs, ncs)
               [] IsCommutative(o) -> MulFold(rest, coeff, InsertSorted(o, cs), ncs)
               [] ncs # <<>> /\ BaseOf(ncs[Len(ncs)]) = BaseOf(o) ->
                     MulFold(<<MkPow(BaseOf(o), ExpOf(ncs[Len(ncs)]) + ExpOf(o))>> \o rest,
                             coeff, cs, SubSeq(ncs, 1, Len(ncs) - 1))
               [] OTHER -> MulFold(rest, coeff, cs, Append(ncs, o))

MkMul(args) ==
    IF AnyErr(args) THEN FirstErr(args) ELSE MulFold(args, SOne, <<>>, <<>>)

\* term.as_coeff_Mul(): the rational coefficient and what it multiplies
CoeffOf(e) ==
    IF IsNum(e) \/ IsMul(e) THEN <<e.p[1], e.p[2], 1>> ELSE SOne

RestOf(e) ==
    CASE IsNum(e) -> Num(<<1, 1, e.p[3]>>)
      [] IsMul(e) -> IF e.p[3] = 1 /\ Len(e.a) = 1 THEN e.a[1]
                     ELSE Node("Mul", <<1, 1, e.p[3]>>, e.a)
      [] OTHER -> e

\* coefficient c times the rest r of a term, as Add stores it
WithCoeff(c, r) ==
    CASE IsNum(r) -> Num(SMul(c, r.p))
      [] IsMul(r) -> Node("Mul", SMul(c, r.p), r.a)
      [] c = SOne -> r
      [] OTHER -> Node("Mul", c, <<r>>)

RECURSIVE FlattenAdd(_)
FlattenAdd(s) ==
    IF s = <<>> THEN <<>>
    ELSE (IF IsAdd(Head(s)) THEN Head(s).a ELSE <<Head(s)>>) \o FlattenAdd(Tail(s))

\* collect the coefficient of every distinct rest; acc is a sequence of <<rest, coeff>>
RECURSIVE Collect(_, _)
Collect(s, acc) ==
    IF s = <<>> THEN acc
    ELSE LET r == RestOf(Head(s))
             c == CoeffOf(Head(s))
             hit == {i \in 1..Len(acc) : acc[i][1] = r}
         IN  IF hit = {}
             THEN Collect(Tail(s), Append(acc, <<r, c>>))
             ELSE LET i == CHOOSE j \in hit : TRUE
                  IN  Collect(Tail(s), [acc EXCEPT ![i] = <<r, SAdd(acc[i][2], c)>>])

RECURSIVE Rebuild(_)
Rebuild(acc) ==
    IF acc = <<>> THEN <<>>
    ELSE (IF Head(acc)[2] = SZero THEN <<>>
          ELSE <<WithCoeff(Head(acc)[2], Head(acc)[1])>>) \o Rebuild(Tail(acc))

MkAdd(args) ==
    IF AnyErr(args) THEN FirstErr(args)
    ELSE LET Sum(terms) == IF terms = <<>> THEN Zero
                           ELSE IF Len(terms) = 1 THEN terms[1]
                           ELSE Node("Add", <<>>, terms)
         IN  Sum(SortExprs(Rebuild(Collect(FlattenAdd(args), <<>>))))

(***************************************************************************)
(* Constructors of the product classes and of inner and outer products.    *)
(***************************************************************************)
Unsupported == Err(5)

\* component_class() of a product state class; "" stands for None
ComponentClass(t) ==
    CASE t \in {"UniverseKet"} -> "FieldKet"
      [] t \in {"UniverseBra"} -> "FieldBra"
      [] t = "FieldKet" -> "ParticleKet"
      [] t = "FieldBra" -> "ParticleBra"
      [] t \in {"MomentumKet", "QNumberKet"} -> "OrthogonalKet"
      [] t \in {"MomentumBra", "QNumberBra"} -> "OrthogonalBra"
      [] OTHER -> ""

\* isinstance(e, cls) for the component test; "Operator" is the Operator base class
IsInstance(e, cls) == IF cls = "Operator" THEN IsOperator(e) ELSE e.t = cls

\* a check that takes every product for a component
CheckAnyProduct(arg, cls) == IsMul(arg) \/ IsInstance(arg, cls)

\* _check_components of ProductState / ProductOperator for one argument
CheckComponent(arg, cls) ==
    CASE IsAdd(arg) ->
            \A i \in 1..Len(arg.a) :
                IF IsMul(arg.a[i])
                THEN \A j \in 1..Len(NcPart(arg.a[i])) : IsInstance(NcPart(arg.a[i])[j], cls)
                ELSE IsInstance(arg.a[i], cls)
      [] IsMul(arg) ->
            \A i \in 1..Len(arg.a) :
                IsCommutative(arg.a[i]) \/ IsInstance(arg.a[i], cls)
      [] OTHER -> IsInstance(arg, cls)

\* ProductState._check_components
CheckStateComponents(t, args) ==
    ComponentClass(t) = "" \/ \A i \in 1..Len(args) : CheckComponent(args[i], ComponentClass(t))

\* ProductOperator._check_components
CheckOperatorComponents(args) ==
    \A i \in 1..Len(args) : CheckComponent(args[i], "Operator")

RECURSIVE ConcatCParts(_)
ConcatCParts(s) ==
    IF s = <<>> THEN <<>> ELSE CPart(Head(s)) \o ConcatCParts(Tail(s))

\* sympy's TensorProduct.__new__: scalars leave the slots
PlainTensorProduct(args) ==
    LET slots == [i \in 1..Len(args) |-> FromArgs(NcPart(args[i]))]
        nonscalar == {i \in 1..Len(args) : NcPart(args[i]) # <<>>}
    IN  MkMul(ConcatCParts(args) \o
              (IF nonscalar = {} THEN <<>>
               ELSE IF Len(args) = 1 THEN <<slots[1]>>
               ELSE <<Node("TensorProduct", <<>>, slots)>>))

\* ParticleState.__new__
ParticleStateNew(t, args) ==
    LET ket == t = "ParticleKet"
    IN  IF args = <<>> \/ (Len(args) = 1 /\ args[1] = Zero)
        THEN Node(t, <<>>, <<Zero>>)
        ELSE IF /\ Len(args) = 2
                /\ args[1].t = (IF ket THEN "MomentumKet" ELSE "MomentumBra")
                /\ args[2].t = (IF ket THEN "QNumberKet" ELSE "QNumberBra")
        THEN Node(t, <<>>, args)
        ELSE ValueError

\* the constructor call of every class that is a TensorProduct
ClassNew(t, args) ==
    CASE AnyErr(args) -> FirstErr(args)
      [] t = "TensorProduct" -> PlainTensorProduct(args)
      [] t \in {"ParticleKet", "ParticleBra"} -> ParticleStateNew(t, args)
      [] t \in ProductOperatorClasses ->
            IF CheckOperatorComponents(args) THEN Node(t, <<>>, args) ELSE ValueError
      [] t \in {"MomentumKet", "MomentumBra", "QNumberKet", "QNumberBra"} ->
            \* QNumberState.__new__ wraps what is not a component
            IF \A i \in 1..Len(args) :
                    args[i].t = ComponentClass(t) \/ (IsNum(args[i]) /\ args[i].p[2] = 1
                                                        /\ args[i].p[3] = 1)
            THEN Node(t, <<>>, [i \in 1..Len(args) |->
                        IF IsNum(args[i])
                        THEN Node(ComponentClass(t), <<args[i].p[1]>>, <<>>)
                        ELSE args[i]])
            ELSE Unsupported
      [] OTHER ->
            IF \E i \in 1..Len(args) : args[i] = Zero THEN Zero
            ELSE IF CheckStateComponents(t, args) THEN Node(t, <<>>, args)
            ELSE ValueError

IsNullState(e) == e.a[1] = Zero

Identity == Node("IdentityOperator", <<>>, <<>>)
Absence == Node("AbsenceProjection", <<>>, <<>>)
Presence == Node("PresenceProjection", <<>>, <<>>)

\* ket * bra: KetBase.__mul__ and its overrides, then OuterProduct.__new__
MkOuter(ket, bra) ==
    CASE ket.t = "ParticleKet" /\ bra.t = "ParticleBra" ->
            IF IsNullState(ket) /\ IsNullState(bra) THEN Absence
            ELSE Node("ParticleOuterProduct", <<>>, <<ket, bra>>)
      [] DualClass(ket.t) # bra.t -> TypeError
      [] ket.t \in ProductStateClasses \ {"ParticleKet"} ->
            Node("ProductOuterProduct", <<>>, <<ket, bra>>)
      [] OTHER -> Node("OuterProduct", <<>>, <<ket, bra>>)

MkInner(bra, ket) == Node("InnerProduct", <<>>, <<bra, ket>>)

\* a * b with Python's operator: __mul__ / __rmul__ of the quantum classes
PyMul(a, b) ==
    CASE IsErr(a) -> a
      [] IsErr(b) -> b
      [] IsKetBase(a) /\ IsBraBase(b) -> MkOuter(a, b)
      [] IsBraBase(a) /\ IsKetBase(b) -> MkInner(a, b)
      [] IsOperator(a) /\ a.t # "IdentityOperator" /\ b.t = "IdentityOperator" -> a
      [] a.t = "IdentityOperator" /\ IsOperator(b) -> b
      [] OTHER -> MkMul(<<a, b>>)

(***************************************************************************)
(* e.expand(): products and positive powers are distributed over sums;     *)
(* with the tensorproduct hint, tensor products are too.                   *)
(***************************************************************************)
FirstAdd(s) ==
    IF \E i \in 1..Len(s) : IsAdd(s[i])
    THEN CHOOSE i \in 1..Len(s) : IsAdd(s[i]) /\ \A j \in 1..(i - 1) : ~IsAdd(s[j])
    ELSE 0

ReplaceAt(s, i, v) == [s EXCEPT ![i] = v]

RECURSIVE Expand(_, _)
RECURSIVE ExpandTensor(_)

\* _eval_expand_tensorproduct (product_state.py:66, product_operator.py:45 and
\* sympy's own for the plain class)
ExpandTensor(tp) ==
    LET i == FirstAdd(tp.a)
        Inner(nc) == IF Len(nc) = 1 /\ IsTensorProduct(nc[1])
                     THEN <<ExpandTensor(nc[1])>> ELSE nc
        Term(t2) == IF IsErr(t2) THEN t2
                    ELSE MkMul(CPart(t2) \o Inner(NcPart(t2)))
    IN  IF i = 0 THEN tp
        ELSE MkAdd([k \in 1..Len(tp.a[i].a) |->
                      Term(ClassNew(tp.t, ReplaceAt(tp.a, i, tp.a[i].a[k])))])

Expand(e, tens) ==
    CASE IsAdd(e) -> MkAdd([i \in 1..Len(e.a) |-> Expand(e.a[i], tens)])
      [] IsMul(e) ->
            LET Over(fs, i) ==
                    IF i = 0 THEN (IF fs = e.a THEN e ELSE MkMul(<<Num(e.p)>> \o fs))
                    ELSE MkAdd([k \in 1..Len(fs[i].a) |->
                            Expand(MkMul(<<Num(e.p)>> \o ReplaceAt(fs, i, fs[i].a[k])),
                                   tens)])
                Factors(fs) == Over(fs, FirstAdd(fs))
            IN  Factors([i \in 1..Len(e.a) |-> Expand(e.a[i], tens)])
      [] IsPow(e) ->
            LET Base(b) ==
                    IF IsAdd(b) /\ e.p[1] >= 2
                    THEN MkAdd([k \in 1..Len(b.a) |->
                            Expand(MkMul(<<b.a[k], Expand(MkPow(b, e.p[1] - 1), tens)>>),
                                   tens)])
                    ELSE IF b = e.a[1] THEN e
                    ELSE MkPow(b, e.p[1])
            IN  Base(Expand(e.a[1], tens))
      [] IsTensorProduct(e) ->
            \* the mul hint runs again after the tensorproduct hint
            LET Rebuilt(r) == IF tens /\ IsTensorProduct(r)
                              THEN Expand(ExpandTensor(r), FALSE) ELSE r
                Slots(slots) == Rebuilt(IF slots = e.a THEN e ELSE ClassNew(e.t, slots))
            IN  Slots([i \in 1..Len(e.a) |-> Expand(e.a[i], tens)])
      [] OTHER -> e

(***************************************************************************)
(* Capabilities of the atoms: _eval_innerproduct, _apply_operator and      *)
(* _apply_from_right_to.  A capability returns an expression, None, or     *)
(* raises; NotImplementedError also stands for the AttributeError of a     *)
(* missing method, since apply_op_Mul catches both together.               *)
(***************************************************************************)
NoneResult == Node("None", <<>>, <<>>)
NotImplementedError == Node("NotImplementedError", <<>>, <<>>)
AttributeError == Err(6)

ProjectionClasses == {"PresenceProjection", "AbsenceProjection"}
StepSymmetrizerClasses == {"StepSymmetrizer", "StepAntisymmetrizer"}
\* isinstance(rhs, (FieldState, FieldOperator))
IsField(e) == e.t \in {"FieldKet", "FieldBra", "FieldOperator"}
IsProductBra(e) == e.t \in ProductStateClasses \cap BraClasses
IsProductKet(e) == e.t \in ProductStateClasses \cap KetClasses

RECURSIVE Dual(_)
Dual(e) ==
    IF IsState(e) THEN Node(DualClass(e.t), e.p, [i \in 1..Len(e.a) |-> Dual(e.a[i])])
    ELSE e

RECURSIVE eval_innerproduct(_, _)
RECURSIVE ProductInner(_, _)

\* the component loop of ProductKet._eval_innerproduct
ProductInner(kets, bras) ==
    IF kets = <<>> THEN One
    ELSE LET Component(compres) ==
                 IF IsErr(compres) \/ compres \in {NoneResult, NotImplementedError, Zero}
                 THEN compres
                 ELSE ProductInner(Tail(kets), Tail(bras))
         IN  Component(eval_innerproduct(Head(kets), Head(bras)))

\* an inner product that does not look at the labels
LabelBlindInner(ket, bra) ==
    IF bra.t = DualClass(ket.t) THEN One ELSE NotImplementedError

\* ket._eval_innerproduct(bra)
eval_innerproduct(ket, bra) ==
    CASE ket.t = "OrthogonalKet" ->
            \* sympy's OrthogonalKet compares the labels; the label of a plain Bra
            \* is a symbol, the single argument of a product bra is a bra or 0
            IF bra.t = "OrthogonalBra" THEN (IF ket.p = bra.p THEN One ELSE Zero)
            ELSE IF bra.t = "Bra" THEN NoneResult
            ELSE IF Len(bra.a) # 1 THEN ValueError
            ELSE IF bra.a[1] = Zero THEN Zero
            ELSE NoneResult
      [] ket.t = "Ket" -> NotImplementedError
      [] ket.t = "ParticleKet" /\ bra.t = "ParticleBra"
           /\ (IsNullState(ket) \/ IsNullState(bra)) ->
            IF IsNullState(ket) /\ IsNullState(bra) THEN One ELSE Zero
      [] IsProductKet(ket) ->
            IF IsProductBra(bra)
            THEN (IF Len(bra.a) # Len(ket.a) THEN ValueError
                  ELSE ProductInner(ket.a, bra.a))
            ELSE NotImplementedError
      [] OTHER -> AttributeError

\* InnerProduct(bra, ket).doit()
DoIt(bra, ket) ==
    LET Second(r2) == CASE r2 = NotImplementedError -> MkInner(bra, ket)
                        [] r2 = NoneResult -> Unsupported
                        [] OTHER -> r2
        First(r) == CASE r = NoneResult -> MkInner(bra, ket)
                      [] r # NotImplementedError -> r
                      [] OTHER -> Second(eval_innerproduct(Dual(bra), Dual(ket)))
    IN  First(eval_innerproduct(ket, bra))

\* ParticleSwap.swap_particles (indices count from 0)
swap_particles(state, index1, index2) ==
    IF index1 >= Len(state.a) \/ index2 >= Len(state.a) THEN IndexError
    ELSE ClassNew(state.t, [k \in 1..Len(state.a) |->
                               IF k = index1 + 1 THEN state.a[index2 + 1]
                               ELSE IF k = index2 + 1 THEN state.a[index1 + 1]
                               ELSE state.a[k]])

\* ParticlePermutation.order_particles
order_particles(state, permutation) ==
    IF \E i \in 1..Len(permutation) : permutation[i] >= Len(state.a) THEN IndexError
    ELSE ClassNew(state.t, [k \in 1..Len(state.a) |->
                               IF k <= Len(permutation) THEN state.a[permutation[k] + 1]
                               ELSE state.a[k]])

SwapAt(s, i, j) == [s EXCEPT ![i + 1] = s[j + 1], ![j + 1] = s[i + 1]]
Max(a, b) == IF a >= b THEN a ELSE b

\* ParticleSwap._apply_operator_ParticleSwap
swap_times_swap(self, rhs) ==
    IF {rhs.p[1], rhs.p[2]} = {self.p[1], self.p[2]} THEN Identity
    ELSE LET n == Max(Max(rhs.p[1], rhs.p[2]), Max(self.p[1], self.p[2])) + 1
             indices == [k \in 1..n |-> k - 1]
         IN  Node("ParticlePermutation",
                  SwapAt(SwapAt(indices, rhs.p[1], rhs.p[2]), self.p[1], self.p[2]), <<>>)

\* StepSymmetrizerBase._apply_operator on a field state
step_symmetrize(self, rhs) ==
    LET new_num == self.p[1]
        sign == IF self.t = "StepSymmetrizer" THEN 1 ELSE -1
        result_states == <<rhs>> \o [k \in 1..(new_num - 1) |->
            MkMul(<<Integer(sign), swap_particles(rhs, new_num - 1, k - 1)>>)]
    IN  MkMul(<<MkAdd(result_states), Num(SInv(SSqrt(new_num)))>>)

\* Projection._apply_operator_ParticleKet / _ParticleOuterProduct / _apply_from_right_to
project(self, null, other) ==
    IF null THEN (IF self.t = "PresenceProjection" THEN Zero ELSE other)
    ELSE (IF self.t = "PresenceProjection" THEN other ELSE Zero)

\* lhs._apply_operator(rhs)
apply_operator(lhs, rhs) ==
    CASE ~IsOperator(lhs) -> NotImplementedError
      [] lhs.t = "IdentityOperator" -> rhs
      [] lhs.t = "ParticleSwap" /\ IsField(rhs) -> swap_particles(rhs, lhs.p[1], lhs.p[2])
      [] lhs.t = "ParticleSwap" /\ rhs.t = "ParticleSwap" -> swap_times_swap(lhs, rhs)
      [] lhs.t = "ParticlePermutation" /\ IsField(rhs) -> order_particles(rhs, lhs.p)
      [] lhs.t = "ParticlePermutation" /\ rhs.t = "ParticlePermutation" -> TypeError
      [] lhs.t \in StepSymmetrizerClasses /\ IsField(rhs) -> step_symmetrize(lhs, rhs)
      [] lhs.t \in ProjectionClasses /\ rhs.t = "ParticleKet" ->
            project(lhs, IsNullState(rhs), rhs)
      [] lhs.t \in ProjectionClasses /\ rhs.t = "ParticleOuterProduct" ->
            project(lhs, IsNullState(rhs.a[1]), rhs)
      [] lhs.t = "PresenceProjection" /\ rhs.t = "AbsenceProjection" -> Zero
      [] lhs.t = "AbsenceProjection" /\ rhs.t = "PresenceProjection" -> Zero
      [] lhs.t = "FieldFreeEvolution" /\ rhs.t = "FieldKet" ->
            IF rhs.a = <<>> \/ (rhs.a[1].t = "ParticleKet" /\ IsNullState(rhs.a[1]))
            THEN rhs ELSE NotImplementedError
      [] OTHER -> NotImplementedError

\* rhs._apply_from_right_to(lhs)
apply_from_right_to(rhs, lhs) ==
    CASE IsKetBase(rhs) -> NotImplementedError
      [] rhs.t \in ProjectionClasses ->
            IF lhs.t = "ParticleBra" THEN project(rhs, IsNullState(lhs), lhs)
            ELSE IF lhs.t = "ParticleOuterProduct"
            THEN project(rhs, IsNullState(lhs.a[2]), lhs)
            ELSE NoneResult
      [] rhs.t = "ParticleOuterProduct" ->
            CASE lhs.t = "ParticleBra" -> PyMul(DoIt(lhs, rhs.a[1]), rhs.a[2])
              [] lhs.t = "ParticleOuterProduct" ->
                    PyMul(DoIt(lhs.a[2], rhs.a[1]), PyMul(lhs.a[1], rhs.a[2]))
              [] lhs.t = "PresenceProjection" ->
                    IF IsNullState(rhs.a[1]) THEN Zero ELSE rhs
              [] lhs.t = "AbsenceProjection" ->
                    IF IsNullState(rhs.a[1]) THEN rhs ELSE Zero
              [] OTHER -> NoneResult
      [] rhs.t = "ProductOuterProduct" ->
            IF IsProductBra(lhs) THEN PyMul(DoIt(lhs, rhs.a[1]), rhs.a[2]) ELSE NoneResult
      [] IsOperator(rhs) -> NoneResult
      [] OTHER -> NotImplementedError

(***************************************************************************)
(* apply_op and apply_op_Mul (src/pb2q/sympy/apply_op.py).  d is the depth *)
(* of the Python call stack; beyond RecLimit the interpreter raises        *)
(* RecursionError.  A while-loop still running after LoopLimit rounds is   *)
(* reported as Hang.                                                       *)
(***************************************************************************)
RecLimit == 14
LoopLimit == 6
Hang == Err(7)

\* isinstance(res, Number)
IsNumber(e) == IsNum(e) /\ e.p[3] = 1

\* the test of apply_op.py:132-136
SlotsOk(tp) ==
    \A i \in 1..Len(tp.a) :
        IsOperator(tp.a[i]) \/ IsState(tp.a[i]) \/ IsMul(tp.a[i]) \/ IsPow(tp.a[i])
          \/ tp.a[i] = One

IsSlotWise(lhs, rhs) ==
    /\ IsTensorProduct(lhs) /\ SlotsOk(lhs)
    /\ IsTensorProduct(rhs) /\ SlotsOk(rhs)
    /\ Len(lhs.a) = Len(rhs.a)

RECURSIVE apply_op(_, _)
RECURSIVE apply_op_Mul(_, _)
RECURSIVE MulLoop(_, _, _)
RECURSIVE SlotLoop(_, _, _, _)

\* a slot loop that goes on after a null slot
RECURSIVE SlotLoopAll(_, _, _, _)
SlotLoopAll(ls, rs, results, d) ==
    IF ls = <<>> THEN Node("Results", <<>>, results)
    ELSE LET Slot(res) == IF IsErr(res) THEN res
                          ELSE SlotLoopAll(Tail(ls), Tail(rs), Append(results, res), d)
         IN  Slot(apply_op(MkMul(<<Head(ls), Head(rs)>>), d + 1))

\* apply_op.py:139-145: the results of the slots, 0 at the first null slot
SlotLoop(ls, rs, results, d) ==
    IF ls = <<>> THEN Node("Results", <<>>, results)
    ELSE LET Slot(res) == IF IsErr(res) THEN res
                          ELSE IF res = Zero THEN Zero
                          ELSE SlotLoop(Tail(ls), Tail(rs), Append(results, res), d)
         IN  Slot(apply_op(MkMul(<<Head(ls), Head(rs)>>), d + 1))

\* apply_op.py:147-157
SlotResult(results, rhs) ==
    IF \A i \in 1..Len(results) : IsNumber(results[i]) THEN MkMul(results)
    ELSE LET Spread(tps) ==
                 IF IsAdd(tps)
                 THEN MkAdd([k \in 1..Len(tps.a) |->
                         PyMul(MkMul(CPart(tps.a[k])), ClassNew(rhs.t, NcPart(tps.a[k])))])
                 ELSE ClassNew(rhs.t, results)
         IN  Spread(Expand(PlainTensorProduct(results), TRUE))

\* a dispatch that builds no inner product
DispatchNoInner(lhs, rhs) ==
    LET Last(r2) == IF r2 = NotImplementedError THEN NoneResult ELSE r2
        Right(r1) ==
            Last(IF r1 = NotImplementedError THEN apply_from_right_to(rhs, lhs) ELSE r1)
    IN  Right(apply_operator(lhs, rhs))

\* a dispatch that never asks the right factor
DispatchLeftOnly(lhs, rhs) ==
    LET Last(r1) ==
            IF r1 = NotImplementedError
            THEN (IF IsBraBase(lhs) /\ IsKetBase(rhs) THEN DoIt(lhs, rhs) ELSE NoneResult)
            ELSE r1
    IN  Last(apply_operator(lhs, rhs))

\* a dispatch that asks the right factor before the left one
DispatchRightFirst(lhs, rhs) ==
    LET Last(r2) ==
            IF r2 = NotImplementedError
            THEN (IF IsBraBase(lhs) /\ IsKetBase(rhs) THEN DoIt(lhs, rhs) ELSE NoneResult)
            ELSE r2
        Left(r1) ==
            Last(IF r1 = NotImplementedError THEN apply_operator(lhs, rhs) ELSE r1)
    IN  Left(apply_from_right_to(rhs, lhs))

\* apply_op.py:164-181
Dispatch(lhs, rhs) ==
    LET Last(r2) ==
            IF r2 = NotImplementedError
            THEN (IF IsBraBase(lhs) /\ IsKetBase(rhs) THEN DoIt(lhs, rhs) ELSE NoneResult)
            ELSE r2
        Right(r1) ==
            Last(IF r1 = NotImplementedError THEN apply_from_right_to(rhs, lhs) ELSE r1)
    IN  Right(apply_operator(lhs, rhs))

\* apply_op.py:111, the test of the power split; the exponents are integers
SplitFires(lhs) == IsPow(lhs)

\* a split that drops the rest of the power
PowRestDropped(lhs) == One

\* apply_op.py:112: what stays of a power once one base is split off
PowRest(lhs) == MkPow(lhs.a[1], lhs.p[1] - 1)

\* Commutator.doit() and AntiCommutator.doit() of two operators without an
\* _eval_commutator of their own: A*B - B*A and A*B + B*A
CommutatorDoIt(lhs) ==
    MkAdd(<<MkMul(<<lhs.a[1], lhs.a[2]>>),
            MkMul(<<Integer(IF lhs.t = "Commutator" THEN -1 ELSE 1), lhs.a[2], lhs.a[1]>>)>>)

\* apply_op.py:122-129: the expression that takes the place of the product
Resolved(args, comm, rhs) ==
    IF IsAdd(comm)
    THEN MkAdd(<<MkMul(args \o <<comm.a[1], rhs>>), MkMul(args \o <<comm.a[2], rhs>>)>>)
    ELSE PyMul(PyMul(MkMul(args), comm), rhs)

\* an outer product that is dispatched whole
OuterKept(lhs) == lhs

\* apply_op.py:116-118: the bra of an outer product is what meets rhs
OuterBra(lhs) == IF IsOuterProduct(lhs) THEN lhs.a[2] ELSE lhs

\* apply_op.py:89-198
apply_op_Mul(e, d) ==
    IF IsErr(e) THEN e
    ELSE IF d > RecLimit THEN RecursionError
    ELSE IF ~IsMul(e) \/ Len(MulArgs(e)) <= 1 THEN e
    ELSE
    LET all == MulArgs(e)
        rhs == all[Len(all)]
        lhs0 == all[Len(all) - 1]
        args0 == SubSeq(all, 1, Len(all) - 2)
        split == SplitFires(lhs0)
        lhs1 == IF split THEN lhs0.a[1] ELSE lhs0
        unfold == IsOuterProduct(lhs1)
        lhs == OuterBra(lhs1)
        Slots(args, sl) ==
            IF IsErr(sl) \/ sl = Zero THEN sl
            ELSE apply_op(PyMul(MkMul(args), SlotResult(sl.a, rhs)), d + 1)
        Applied(args, result) ==
            CASE IsErr(result) -> result
              [] result = Zero -> Zero
              [] result = NoneResult ->
                    IF args = <<>> THEN e
                    ELSE PyMul(apply_op_Mul(MkMul(Append(args, lhs)), d + 1), rhs)
              [] IsInnerProduct(result) ->
                    PyMul(result, apply_op_Mul(MkMul(args), d + 1))
              [] OTHER -> apply_op(PyMul(MkMul(args), result), d + 1)
        Rest(args) ==
            IF IsCommutator(lhs)
            THEN apply_op(Resolved(args, CommutatorDoIt(lhs), rhs), d + 1)
            ELSE IF IsSlotWise(lhs, rhs)
            THEN Slots(args, SlotLoop(lhs.a, rhs.a, <<>>, d))
            ELSE Applied(args, Dispatch(lhs, rhs))
    IN  IF IsCommutative(rhs) \/ IsCommutative(lhs0) THEN e
        ELSE Rest((IF split THEN Append(args0, PowRest(lhs0)) ELSE args0)
                    \o (IF unfold THEN <<lhs1.a[1]>> ELSE <<>>))

\* a loop over a Mul that multiplies by the commuting factors twice
MulLoopTwice(e, d, k) ==
    IF ~IsMul(e) THEN e
    ELSE IF k > LoopLimit THEN Hang
    ELSE LET Round(result) == IF IsErr(result) \/ result = e THEN result
                              ELSE MulLoop(result, d, k + 1)
             Reduced(c_mul, nc_mul) ==
                 PyMul(MkMul(<<c_mul, c_mul>>),
                       IF IsMul(nc_mul) THEN apply_op_Mul(nc_mul, d + 1)
                       ELSE apply_op(nc_mul, d + 1))
         IN  Round(Reduced(MkMul(CPart(e)), MkMul(NcPart(e))))

\* a loop over a Mul that does not run
MulLoopNever(e, d, k) == e

\* apply_op.py:68-82, k counts the rounds of the loop
MulLoop(e, d, k) ==
    IF ~IsMul(e) THEN e
    ELSE IF k > LoopLimit THEN Hang
    ELSE LET Round(result) == IF IsErr(result) \/ result = e THEN result
                              ELSE MulLoop(result, d, k + 1)
             Reduced(c_mul, nc_mul) ==
                 PyMul(c_mul, IF IsMul(nc_mul) THEN apply_op_Mul(nc_mul, d + 1)
                              ELSE apply_op(nc_mul, d + 1))
         IN  Round(Reduced(MkMul(CPart(e)), MkMul(NcPart(e))))

apply_op(e0, d) ==
    IF IsErr(e0) THEN e0
    ELSE IF d > RecLimit THEN RecursionError
    ELSE IF e0 = Zero THEN Zero
    ELSE LET Expanded(e) ==
                 CASE IsErr(e) -> e
                   [] IsKetBase(e) -> e
                   [] IsAdd(e) ->
                         Expand(MkAdd([i \in 1..Len(e.a) |-> apply_op(e.a[i], d + 1)]),
                                FALSE)
                   [] IsTensorProduct(e) ->
                         ClassNew(e.t, [i \in 1..Len(e.a) |-> apply_op(e.a[i], d + 1)])
                   [] IsPow(e) -> MkPow(apply_op(e.a[1], d + 1), e.p[1])
                   [] IsMul(e) -> MulLoop(e, d, 0)
                   [] OTHER -> e
         IN  Expanded(Expand(e0, TRUE))

\* the call a collaborator makes
normalize(e) == apply_op(e, 0)

(***************************************************************************)
(* The keyword options of apply_op and apply_op_Mul.  A dict is a function *)
(* from its keys; heap is the sequence of the dicts alive and a dict is    *)
(* known by its index in heap.  The counters are only logged, no result    *)
(* depends on them.                                                        *)
(***************************************************************************)
\* a call that hands the dict of the caller to the callee
Shared(heap, o) == <<heap, o>>

\* f(e, **options): the options of the callee is a new dict with the entries
\* of dict o; the heap with the new dict, and its index
Unpack(heap, o) == <<Append(heap, heap[o]), Len(heap) + 1>>

\* apply_op.py:27-28 and 90-92 on the options o of the callee:
\* options[counter] = options.get(counter, 0) + 1
Enter(heap, o, counter) ==
    LET m == heap[o]
        next == (IF counter \in DOMAIN m THEN m[counter] ELSE 0) + 1
    IN  [heap EXCEPT ![o] = [k \in DOMAIN m \cup {counter} |->
                                IF k = counter THEN next ELSE m[k]]]

\* the heap after n nested calls, the first made with **heap[o]: apply_op
\* calls apply_op_Mul (line 74), which calls apply_op (line 198), and so on
RECURSIVE Calls(_, _, _)
Calls(heap, o, n) ==
    IF n = 0 THEN heap
    ELSE LET Callee(h) ==
                 Calls(Enter(h[1], h[2], IF n % 2 = 1 THEN "rec_depth" ELSE "rec_depth_mul"),
                       h[2], n - 1)
         IN  Callee(Unpack(heap, o))

(***************************************************************************)
(* The atoms of pb2q (states.py, operators/) and of sympy.physics.quantum. *)
(***************************************************************************)
OrthogonalKet(i) == Node("OrthogonalKet", <<i>>, <<>>)
OrthogonalBra(i) == Node("OrthogonalBra", <<i>>, <<>>)
Operator(i) == Node("Operator", <<i>>, <<>>)
MomentumKet(p) == Node("MomentumKet", <<>>, <<OrthogonalKet(p)>>)
QNumberKet(q) == Node("QNumberKet", <<>>, <<OrthogonalKet(q)>>)
ParticleKet(p, q) == Node("ParticleKet", <<>>, <<MomentumKet(p), QNumberKet(q)>>)
NullKet == Node("ParticleKet", <<>>, <<Zero>>)
FieldKet(particles) == Node("FieldKet", <<>>, particles)
ProductKet(components) == Node("ProductKet", <<>>, components)
ParticleSwap(i, j) == Node("ParticleSwap", <<i, j>>, <<>>)
StepSymmetrizer(k) == Node("StepSymmetrizer", <<k>>, <<>>)
StepAntisymmetrizer(k) == Node("StepAntisymmetrizer", <<k>>, <<>>)
FieldFreeEvolution(t) == Node("FieldFreeEvolution", <<t>>, <<>>)

\* Pow(b, k) and Pow(b, k, evaluate=False)
Power(b, k, ev) == IF ev THEN MkPow(b, k) ELSE Node("Pow", <<k>>, <<b>>)

(***************************************************************************)
(* The expressions handed to apply_op.  Labels run over 1..MaxLabel and    *)
(* exponents over -MaxExp..MaxExp.                                         *)
(***************************************************************************)
MaxLabel == 2
MaxExp == 2
\* the calls nested in one call of apply_op that are followed
MaxNested == 3

Labels == 1..MaxLabel
Exps == ((0 - MaxExp)..MaxExp) \ {0, 1}

OrthogonalKets == {OrthogonalKet(i) : i \in Labels}
ParticleKets == {ParticleKet(p, q) : p \in Labels, q \in {1, MaxLabel}} \cup {NullKet}
FieldParticles == {ParticleKet(p, 1) : p \in Labels} \cup {NullKet}
FieldKets == {FieldKet(<<u, v>>) : u \in FieldParticles, v \in FieldParticles}
ProductKets == {ProductKet(<<OrthogonalKet(i), OrthogonalKet(j)>>) :
                  i \in Labels, j \in {1, MaxLabel}}
BasisKets == OrthogonalKets \cup ParticleKets \cup FieldKets \cup ProductKets
BasisBras == {Dual(k) : k \in BasisKets}

Ops == {Operator(1), Identity, Presence, Absence, ParticleSwap(0, 1),
        StepSymmetrizer(2), StepAntisymmetrizer(2), FieldFreeEvolution(1)}
SlotOps == {Presence, Absence, ParticleSwap(0, 2)}
SlotStates == {ParticleKet(1, 1), NullKet, FieldKet(<<ParticleKet(1, 1), NullKet>>)}
TensorOps == {Node("TensorProduct", <<>>, <<u, v>>) : u \in SlotOps, v \in SlotOps}
               \cup {Node("ProductOperator", <<>>, <<u, v>>) :
                        u \in {Presence, Absence}, v \in {Presence, Absence}}
TensorStates == {Node("TensorProduct", <<>>, <<u, v>>) : u \in SlotStates, v \in SlotStates}
\* Commutator(A, B) and AntiCommutator(A, B) as their constructors leave them:
\* A and B differ, neither commutes, and A comes before B in the structural order
Commutator(A, B) == Node("Commutator", <<>>, <<A, B>>)
AntiCommutator(A, B) == Node("AntiCommutator", <<>>, <<A, B>>)
Commutators == {Commutator(Presence, Absence), Commutator(Operator(1), Presence),
                Commutator(Presence, ParticleSwap(0, 1)),
                AntiCommutator(Presence, Absence)}
OuterProducts == {MkOuter(OrthogonalKet(1), OrthogonalBra(MaxLabel)),
                  MkOuter(ParticleKet(1, 1), Dual(NullKet)),
                  MkOuter(FieldKet(<<ParticleKet(1, 1), NullKet>>),
                          Dual(FieldKet(<<NullKet, NullKet>>)))}
\* tensor products with a slot that is a product still to be reduced
SlotProducts ==
    {Node("TensorProduct", <<>>,
          <<MkMul(<<OrthogonalBra(MaxLabel), OrthogonalKet(1)>>), OrthogonalKet(1)>>),
     Node("TensorProduct", <<>>,
          <<MkMul(<<OrthogonalBra(1), OrthogonalKet(1)>>), OrthogonalKet(1)>>),
     ProductKet(<<MkMul(<<Presence, NullKet>>), ParticleKet(1, 1)>>),
     ProductKet(<<MkMul(<<Absence, NullKet>>), ParticleKet(1, 1)>>),
     Node("ProductOperator", <<>>, <<MkMul(<<Presence, Absence>>), Operator(1)>>),
     Node("ProductOperator", <<>>, <<MkMul(<<Presence, Operator(1)>>), Operator(1)>>)}
Sums == {MkAdd(<<OrthogonalKet(1), OrthogonalKet(MaxLabel)>>),
         MkAdd(<<FieldKet(<<ParticleKet(1, 1), NullKet>>),
                 FieldKet(<<NullKet, ParticleKet(1, 1)>>)>>)}

\* the family of a state, of a scaled state or of a sum of states of one family
RECURSIVE KetFamily(_)
KetFamily(v) ==
    IF IsAdd(v) THEN KetFamily(v.a[1])
    ELSE IF IsMul(v) THEN v.a[1].t
    ELSE v.t

\* <<left, mid, exp, evaluate, right>> stands for left * mid**exp * right
Singles == {<<One, One, 1, TRUE, v>> : v \in SlotProducts \cup Sums}
Pairs == {<<One, u, 1, TRUE, v>> :
            u \in Ops \cup TensorOps \cup OuterProducts \cup Commutators,
            v \in BasisKets \cup TensorStates \cup SlotProducts \cup Sums}
\* an operator meets an operator
OpPairs == {<<One, u, 1, TRUE, v>> :
              u \in {Presence, Absence, ParticleSwap(0, 1)},
              v \in {Presence, Absence, ParticleSwap(0, 1), ParticleSwap(0, 2),
                     Operator(1)} \cup OuterProducts}
\* a bra, an outer product or an operator meets an operator that takes it from
\* the right
FromRight == {<<One, u, 1, TRUE, v>> :
                u \in {Dual(NullKet), Dual(ParticleKet(1, 1)),
                       Dual(ProductKet(<<OrthogonalKet(1), OrthogonalKet(1)>>)),
                       MkOuter(ParticleKet(1, 1), Dual(NullKet)), Operator(1)},
                v \in {Presence, Absence,
                       MkOuter(ParticleKet(1, 1), Dual(NullKet)),
                       MkOuter(NullKet, Dual(ParticleKet(1, 1))),
                       MkOuter(ProductKet(<<OrthogonalKet(1), OrthogonalKet(1)>>),
                               Dual(ProductKet(<<OrthogonalKet(1), OrthogonalKet(MaxLabel)>>)))}}
\* a number stands in front of one or two factors
Prefixes == {<<c, u, 1, TRUE, v>> :
               c \in {Integer(2), Integer(-1), Num(SSqrt(2))},
                 u \in {One, Presence, ParticleSwap(0, 1), StepSymmetrizer(2), Operator(1),
                      Dual(ParticleKet(1, 1)), MkOuter(ParticleKet(1, 1), Dual(NullKet))},
               v \in {ParticleKet(1, 1), NullKet, FieldKet(<<ParticleKet(1, 1), NullKet>>),
                      Presence}}
\* two operators that combine stand to the left of an operator that meets
\* neither its left neighbour nor the state to its right
Chains == {<<MkMul(<<u, v>>), Operator(1), 1, TRUE, w>> :
             u \in {ParticleSwap(0, 2), ParticleSwap(0, 1)},
             v \in {ParticleSwap(0, 1), Presence},
             w \in {ParticleKet(1, 1), FieldKet(<<ParticleKet(1, 1), NullKet>>)}}
\* tensor products of operators meet tensor products of field kets, and a
\* step symmetrizer in a slot gives a sum
SlotSums == {<<c, Node(t, <<>>, <<StepSymmetrizer(2), u>>), 1, TRUE, v>> :
               c \in {One, Integer(2)},
               t \in {"TensorProduct", "ProductOperator"},
               u \in {StepSymmetrizer(2), Presence, Identity},
               v \in {Node("TensorProduct", <<>>,
                           <<FieldKet(<<ParticleKet(1, 1), NullKet>>), w>>) :
                        w \in {FieldKet(<<ParticleKet(1, 1), ParticleKet(MaxLabel, 1)>>),
                               FieldKet(<<NullKet, NullKet>>), ParticleKet(1, 1)}}
                      \cup {ProductKet(<<FieldKet(<<ParticleKet(1, 1), NullKet>>),
                                         FieldKet(<<ParticleKet(1, 1), NullKet>>)>>)}}
\* tensor products of two slots meet tensor products of three
Triplets == {Node("TensorProduct", <<>>, <<ParticleKet(1, 1), NullKet, ParticleKet(1, 1)>>),
             FieldKet(<<ParticleKet(1, 1), NullKet, ParticleKet(1, 1)>>),
             ProductKet(<<OrthogonalKet(1), OrthogonalKet(1), OrthogonalKet(1)>>)}
Uneven == {<<One, u, 1, TRUE, v>> :
             u \in TensorOps \cup {Dual(FieldKet(<<ParticleKet(1, 1), NullKet>>)),
                                   Dual(ProductKet(<<OrthogonalKet(1), OrthogonalKet(1)>>))},
             v \in Triplets}
\* a bra meets kets of its own family
BraKets == {o \in {<<One, u, 1, TRUE, v>> : u \in BasisBras, v \in BasisKets \cup Sums} :
              o[2].t = DualClass(KetFamily(o[5]))}
             \cup {<<One, u, 1, TRUE, v>> :
                     u \in BasisBras, v \in TensorStates \cup SlotProducts}
Triples == {<<u, v, 1, TRUE, w>> :
              u \in Ops,
              v \in FieldKets \cup ParticleKets \cup {Presence, ParticleSwap(0, 1)},
              w \in {OrthogonalKet(1), NullKet}}
Sandwiches == {o \in {<<u, v, 1, TRUE, w>> :
                        u \in {Dual(NullKet), Dual(ParticleKet(1, 1)),
                               Dual(FieldKet(<<ParticleKet(1, 1), NullKet>>))},
                        v \in Ops,
                        w \in FieldKets \cup ParticleKets} :
                 o[1].t = DualClass(o[5].t)}
Powers == {<<One, u, k, ev, v>> :
             u \in Ops, k \in Exps, ev \in BOOLEAN, v \in FieldKets \cup ParticleKets}
Products == Singles \cup Pairs \cup OpPairs \cup FromRight \cup Prefixes \cup Chains \cup SlotSums
              \cup Uneven \cup BraKets
              \cup Triples \cup Sandwiches \cup Powers

\* <<left, mid, right>> stands for the operator left and the terms mid and right
Twice(v) == MkMul(<<Integer(2), v>>)
Quads == {FieldKet(<<u, u, u, u>>) : u \in FieldParticles}
Watched == {MkMul(<<FieldKet(<<ParticleKet(1, 1), NullKet>>), OrthogonalKet(1)>>)}
SumOps == {One, StepSymmetrizer(2), StepSymmetrizer(4), ParticleSwap(0, 1), Presence,
           FieldFreeEvolution(1), Dual(FieldKet(<<ParticleKet(1, 1), NullKet>>))}
SumStates == FieldKets \cup Quads \cup ParticleKets \cup Watched
               \cup {Twice(v) : v \in Watched \cup {FieldKet(<<ParticleKet(1, 1), NullKet>>),
                                                    ParticleKet(1, 1)}}
SumOperands == {o \in SumOps \X SumStates \X SumStates : KetFamily(o[2]) = KetFamily(o[3])}
                 \cup (SumOps \X SumStates \X {Zero})

\* <<cls, pos, left, mid, right>> stands for cls(left + mid, right) when pos = 1,
\* cls(right, left + mid) when pos = 2, cls(left + mid, right + left) when pos = 3
TensorClasses == {"TensorProduct", "ProductQExpr", "ProductKet", "ProductBra",
                  "ProductOperator", "FieldKet"}
KetSlots == OrthogonalKets \cup {Twice(OrthogonalKet(1)),
                                 MkMul(<<Integer(-1), OrthogonalKet(1)>>),
                                 MkMul(<<Presence, ParticleKet(1, 1)>>)}
SlotsOf(cls) ==
    CASE cls = "ProductBra" -> {Dual(k) : k \in OrthogonalKets}
                                 \cup {Twice(OrthogonalBra(1))}
      [] cls = "ProductOperator" -> {Presence, Absence, Operator(1), Twice(Presence),
                                     MkMul(<<Presence, Absence>>), ParticleKet(1, 1)}
      [] cls = "FieldKet" -> FieldParticles \cup {Twice(ParticleKet(1, 1)), Zero,
                                MkMul(<<Presence, ParticleKet(1, 1)>>), Operator(1)}
      [] OTHER -> KetSlots
TensorOperands ==
    UNION {{<<c, k, u, v, w>> : k \in 1..3, u \in SlotsOf(c), v \in SlotsOf(c),
                                w \in SlotsOf(c)} : c \in TensorClasses}

(***************************************************************************)
(* Permutations: the constructors of the permutation operators and         *)
(* generate_perm.  A Python list of tuples is a "list" node whose          *)
(* arguments are "tuple" nodes.                                            *)
(***************************************************************************)
HasRepetition(args) == \E i, j \in 1..Len(args) : i # j /\ args[i] = args[j]
IsSorted(args) == \A i \in 1..(Len(args) - 1) : args[i] <= args[i + 1]

\* PermutationOperator.__new__
PermutationOperatorNew(args) ==
    IF Len(args) <= 1 \/ IsSorted(args) THEN Identity
    ELSE IF HasRepetition(args) THEN ValueError
    ELSE IF Len(args) = 2 THEN Node("SwapOperator", args, <<>>)
    ELSE Node("PermutationOperator", args, <<>>)

\* SwapOperator.__new__; kinds tells of each argument whether it is a Python
\* int or a sympy Integer
SwapOperatorNew(args, kinds) ==
    IF ~(Len(args) = 2 /\ \A i \in 1..Len(kinds) : kinds[i] = "int") THEN ValueError
    ELSE LET hi == Max(args[1], args[2])
             lo == IF args[1] < args[2] THEN args[1] ELSE args[2]
         IN  PermutationOperatorNew(<<hi, lo>>)

\* np.sort(self.args) of distinct indices
SortedArgs(args) ==
    CHOOSE t \in [1..Len(args) -> {args[i] : i \in 1..Len(args)}] :
        IsSorted(t) /\ ~HasRepetition(t)

\* the largest of the indices
MaxArg(args) == CHOOSE m \in {args[i] : i \in 1..Len(args)} :
                    \A i \in 1..Len(args) : args[i] <= m

\* state.index(arg), with positions counted from 0
IndexOf(state, arg) == (CHOOSE k \in 1..Len(state) : state[k] = arg) - 1

\* PermutationOperator.to_swaps, the loop from pair k on: slot comes out of
\* np.sort(self.args) and is a sympy Integer, target is a Python int
RECURSIVE ToSwapsLoop(_, _, _, _, _)
ToSwapsLoop(slots, args, state, swap_ops, k) ==
    IF k > Len(args) THEN FromArgs(swap_ops)
    ELSE IF args[k] = state[slots[k] + 1]
    THEN ToSwapsLoop(slots, args, state, swap_ops, k + 1)
    ELSE LET target == IndexOf(state, args[k])
             Inserted(op) ==
                 IF IsErr(op) THEN op
                 ELSE ToSwapsLoop(slots, args,
                                  [state EXCEPT ![target + 1] = state[slots[k] + 1],
                                                ![slots[k] + 1] = args[k]],
                                  <<op>> \o swap_ops, k + 1)
         IN  Inserted(SwapOperatorNew(<<slots[k], target>>, <<"Integer", "int">>))

\* P.to_swaps() for P with the indices args
to_swaps(args) ==
    ToSwapsLoop(SortedArgs(args), args, [i \in 1..(MaxArg(args) + 1) |-> i - 1], <<>>, 1)

\* swap_ops.args: the factors of a Mul, the indices of a single swap, nothing
\* for the empty product 1
ArgsOf(swap_ops) ==
    IF IsMul(swap_ops) THEN swap_ops.a
    ELSE [i \in 1..Len(swap_ops.p) |-> Node("Integer", <<swap_ops.p[i]>>, <<>>)]

\* sum((op.args for op in swap_ops.args), ()): an Integer has no args
RECURSIVE AllArgs(_)
AllArgs(ops) ==
    IF ops = <<>> THEN <<>>
    ELSE (IF Head(ops).t = "Integer" THEN <<>> ELSE Head(ops).p) \o AllArgs(Tail(ops))

\* PermutationOperator.from_swaps: max() of an empty tuple raises ValueError,
\* swap_op[0] raises TypeError since an operator cannot be subscripted
from_swaps(swap_ops) ==
    IF IsErr(swap_ops) THEN swap_ops
    ELSE IF swap_ops = One \/ AllArgs(ArgsOf(swap_ops)) = <<>> THEN ValueError
    ELSE IF ArgsOf(swap_ops) # <<>> THEN TypeError
    ELSE PermutationOperatorNew(<<AllArgs(ArgsOf(swap_ops))>>)

\* Mul(*swaps.args[::-1])
Reversed(swaps) ==
    IF IsErr(swaps) \/ ~IsMul(swaps) THEN swaps
    ELSE FromArgs([k \in 1..Len(swaps.a) |-> swaps.a[Len(swaps.a) + 1 - k]])

\* P._eval_inverse() for a PermutationOperator P; a SwapOperator returns itself
eval_inverse(P) ==
    IF P.t = "SwapOperator" THEN P ELSE from_swaps(Reversed(to_swaps(P.p)))

\* PermutationOperator._apply_operator on the product ket with the labels ket
PermutationApply(P, ket) ==
    CASE IsErr(P) -> P
      [] IsErr(ket) -> ket
      [] P = Identity -> ket
      [] Len(ket.p) <= MaxArg(P.p) -> ValueError
      [] OTHER ->
            LET dest == SortedArgs(P.p)
            IN  Node("ProductKet",
                     [k \in 1..Len(ket.p) |->
                         IF \E i \in 1..Len(dest) : dest[i] = k - 1
                         THEN ket.p[P.p[CHOOSE i \in 1..Len(dest) : dest[i] = k - 1] + 1]
                         ELSE ket.p[k]],
                     <<>>)

\* ParticlePermutation.__new__
ParticlePermutationNew(args) ==
    IF {args[i] : i \in 1..Len(args)} # 0..(Len(args) - 1) THEN ValueError
    ELSE IF args = [i \in 1..Len(args) |-> i - 1] THEN Identity
    ELSE Node("ParticlePermutation", args, <<>>)

\* seq[idx], seq[_k - 1] = seq[_k - 1], seq[idx], with positions counted from 1
Swapped(s, i, j) == [s EXCEPT ![i] = s[j], ![j] = s[i]]

RECURSIVE generate_perm(_, _, _)
RECURSIVE PermLoop(_, _, _, _)
\* generate_perm(seq, _k) at call depth d: a "list" node with the list seq as
\* the call leaves it and the tuples of the result, or RecursionError
generate_perm(s, k, d) ==
    IF d > RecLimit THEN RecursionError
    ELSE IF k = 1 THEN Node("list", s, <<Node("tuple", s, <<>>)>>)
    ELSE LET Loop(first) == IF IsErr(first) THEN first ELSE PermLoop(first, k, 1, d)
         IN  Loop(generate_perm(s, k - 1, d + 1))

\* the rounds of "for idx in indices" from round i on
PermLoop(r, k, i, d) ==
    IF i > k - 1 THEN r
    ELSE LET Extended(more) ==
                 IF IsErr(more) THEN more
                 ELSE PermLoop(Node("list", more.p, r.a \o more.a), k, i + 1, d)
         IN  Extended(generate_perm(Swapped(r.p, IF k % 2 = 0 THEN i ELSE 1, k),
                                    k - 1, d + 1))

\* generate_perm(seq): the list it returns
GeneratePerm(s) ==
    LET Returned(r) == IF IsErr(r) THEN r ELSE Node("list", <<>>, r.a)
    IN  Returned(generate_perm(s, Len(s), 0))

\* the longest range handed to generate_perm
MaxParticles == 4

\* index lists over 0..MaxLabel, and the sequences of distinct elements
IndexLists == UNION {[1..n -> 0..MaxLabel] : n \in 0..(MaxLabel + 1)}
Sequences == {s \in IndexLists : ~HasRepetition(s)}
                 \cup {[i \in 1..n |-> i - 1] : n \in 0..MaxParticles}
PermutationClasses == {"PermutationOperator", "ParticlePermutation"}

VARIABLES left, mid, exp, evaluate, right, cls, pos, seq, options, out, ref, pc
vars == <<left, mid, exp, evaluate, right, cls, pos, seq, options, out, ref, pc>>
operands == <<left, mid, exp, evaluate, right, cls, pos, seq>>

\* the product left * mid**exp * right
Input == MkMul(<<left, Power(mid, exp, evaluate), right>>)

\* the components left + mid and right, with the sum in slot pos, or sums in
\* both slots
Components ==
    LET Sum(x, y) == MkAdd(<<x, y>>)
    IN  CASE pos = 1 -> <<Sum(left, mid), right>>
          [] pos = 2 -> <<right, Sum(left, mid)>>
          [] OTHER -> <<Sum(left, mid), Sum(right, left)>>

\* cls(left + mid, right)
Whole == ClassNew(cls, Components)

\* the sum of the tensor products of the terms
Parts ==
    LET slots == CASE pos = 1 -> <<<<left, right>>, <<mid, right>>>>
                   [] pos = 2 -> <<<<right, left>>, <<right, mid>>>>
                   [] OTHER -> <<<<left, right>>, <<left, left>>,
                                 <<mid, right>>, <<mid, left>>>>
    IN  MkAdd([k \in 1..Len(slots) |-> ClassNew(cls, slots[k])])

InitProduct ==
    /\ \E o \in Products :
          left = o[1] /\ mid = o[2] /\ exp = o[3] /\ evaluate = o[4] /\ right = o[5]
    /\ cls = "Mul" /\ pos = 0 /\ seq = <<>>
    /\ pc = "product"

InitSum ==
    /\ \E o \in SumOperands : left = o[1] /\ mid = o[2] /\ right = o[3]
    /\ exp = 1 /\ evaluate = TRUE
    /\ cls = "Add" /\ pos = 0 /\ seq = <<>>
    /\ pc \in {"sum", "apply"}

InitTensor ==
    /\ \E o \in TensorOperands :
          cls = o[1] /\ pos = o[2] /\ left = o[3] /\ mid = o[4] /\ right = o[5]
    /\ exp = 1 /\ evaluate = TRUE /\ seq = <<>>
    /\ pc = "tensor"

\* a permutation operator is about to be built from the index list seq, or
\* generate_perm is about to be called on seq
InitPermutation ==
    /\ \/ cls \in PermutationClasses /\ seq \in IndexLists /\ pc = "indices"
       \/ cls = "list" /\ seq \in Sequences /\ pc = "sequence"
    /\ left = One /\ mid = One /\ right = One
    /\ exp = 1 /\ evaluate = TRUE /\ pos = 0

\* the largest number of components of the product states that are multiplied
MaxArity == 3

\* Bra(i): a bra with a symbolic label
Bra(i) == Node("Bra", <<i>>, <<>>)

\* the orders of n components
Arrangements(n) == {s \in [1..n -> 1..n] : \A i, j \in 1..n : s[i] = s[j] => i = j}

\* s in the order given by the arrangement
Arranged(s, order) == [k \in 1..Len(s) |-> s[order[k]]]

\* a product bra mid and a product ket right of equal arity are about to be
\* multiplied, as they are and with their components in the order seq
InitInner ==
    /\ \E n \in 2..MaxArity :
          /\ \E bras \in [1..n -> {OrthogonalBra(1), OrthogonalBra(MaxLabel), Bra(1)}] :
                mid = Node("ProductBra", <<>>, bras)
          /\ \E kets \in [1..n -> {OrthogonalKet(1), OrthogonalKet(MaxLabel)}] :
                right = ProductKet(kets)
          /\ seq \in Arrangements(n)
    /\ left = One /\ exp = 1 /\ evaluate = TRUE
    /\ cls = "ProductKet" /\ pos = 0
    /\ pc = "braket"

(***************************************************************************)
(* project_physical (src/pb2q/operators/project_physical.py).  An optional *)
(* integer (npart, nsymm) is <<>> for None and <<n>> for the integer n.    *)
(***************************************************************************)
\* StepSymmetrizerBase._sign
StepSign(op) == IF op.t = "StepSymmetrizer" THEN 1 ELSE -1

\* occupancy_right: the slot holds a particle before the operator acts
OccupancyRight(part_op) ==
    \/ part_op.t = "PresenceProjection"
    \/ part_op.t = "ParticleOuterProduct" /\ ~IsNullState(part_op.a[2])

\* occupancy_left: the slot holds a particle after the operator has acted
OccupancyLeft(part_op) ==
    \/ part_op.t = "PresenceProjection"
    \/ part_op.t = "ParticleOuterProduct" /\ ~IsNullState(part_op.a[1])

\* occupancy.index(False), or max_particles when no slot is free
Nocc(occupancy) ==
    LET free == {i \in 1..Len(occupancy) : ~occupancy[i]}
    IN  IF free = {} THEN Len(occupancy)
        ELSE (CHOOSE i \in free : \A j \in free : i <= j) - 1

\* True in occupancy[nocc:]
OccupiedAfter(occupancy, nocc) == \E i \in (nocc + 1)..Len(occupancy) : occupancy[i]

\* the tuple returned by project_physical_op; op is the exception when it raises
Projected(op, npart_right, npart_left, nsymm) ==
    [op |-> op, npart_right |-> npart_right, npart_left |-> npart_left, nsymm |-> nsymm]

\* project_physical_op(op, npart=npart, nsymm=given, symmetry=symmetry,
\*                     raise_on_subspace_violation=raising)
project_physical_op(op, npart, given, symmetry, raising) ==
    LET nsymm == IF symmetry # 0 /\ given = <<>> THEN npart ELSE given
        Occupancy(occupancy_right, occupancy_left) ==
            LET nocc_right == Nocc(occupancy_right)
                nocc_left == Nocc(occupancy_left)
                counted == IF symmetry # 0 /\ nsymm = <<>> THEN <<nocc_right>> ELSE nsymm
            IN  CASE \/ OccupiedAfter(occupancy_right, nocc_right)
                     \/ npart # <<>> /\ nocc_right # npart[1] ->
                        Projected(Zero, npart, npart, nsymm)
                  [] OccupiedAfter(occupancy_left, nocc_left) ->
                        Projected(IF raising THEN ValueError ELSE Zero, npart, npart, nsymm)
                  [] OTHER ->
                        Projected(op, <<nocc_right>>, <<nocc_left>>,
                                  IF counted = <<>> THEN counted
                                  ELSE IF counted[1] <= nocc_left THEN counted
                                  ELSE <<nocc_left>>)
    IN  CASE npart # <<>> /\ nsymm # <<>> /\ nsymm[1] > npart[1] ->
                Projected(ValueError, npart, npart, nsymm)
          [] op.t \in StepSymmetrizerClasses ->
                CASE StepSign(op) # symmetry -> Projected(Zero, npart, npart, <<0>>)
                  [] \/ npart # <<>> /\ npart[1] < op.p[1]
                     \/ nsymm = <<>>
                     \/ symmetry = 0 -> Projected(op, npart, npart, nsymm)
                  [] op.p[1] > nsymm[1] + 1 -> Projected(op, npart, npart, nsymm)
                  [] op.p[1] = nsymm[1] + 1 -> Projected(op, npart, npart, <<nsymm[1] + 1>>)
                  [] OTHER -> Projected(Num(SSqrt(op.p[1])), npart, npart, nsymm)
          [] ~IsTensorProduct(op) -> Projected(op, npart, npart, nsymm)
          [] Len(op.a) = 0 -> Projected(Zero, npart, npart, nsymm)
          [] \E i \in 1..Len(op.a) :
                op.a[i].t \notin ProjectionClasses \cup {"ParticleOuterProduct"} ->
                Projected(ValueError, npart, npart, nsymm)
          [] OTHER -> Occupancy([i \in 1..Len(op.a) |-> OccupancyRight(op.a[i])],
                                [i \in 1..Len(op.a) |-> OccupancyLeft(op.a[i])])

\* [op.base] * op.exp
RECURSIVE Repeated(_, _)
Repeated(base, n) == IF n <= 0 THEN <<>> ELSE <<base>> \o Repeated(base, n - 1)

\* nc_part_new: the powers among the factors written out
RECURSIVE ExpandPowers(_)
ExpandPowers(nc_part) ==
    IF nc_part = <<>> THEN <<>>
    ELSE (IF IsPow(Head(nc_part)) THEN Repeated(Head(nc_part).a[1], Head(nc_part).p[1])
          ELSE <<Head(nc_part)>>) \o ExpandPowers(Tail(nc_part))

\* one call of project_physical_op in a loop: the factor, the particle number
\* handed to it and what it returned
Call(op, npart, r) == [given |-> op, npart |-> npart, r |-> r]

\* The loop over reversed(nc_part_new).  st holds the local variables: ops,
\* ops_reeval, first_npart, the npart and nsymm of mul_options, the calls made
\* so far, and returned, which is None until the loop returns or raises.
RECURSIVE ScanLoop(_, _, _, _)
ScanLoop(todo, st, symmetry, raising) ==
    IF todo = <<>> \/ st.returned # NoneResult THEN st
    ELSE LET op == todo[Len(todo)]
             Step(r) ==
                 IF IsErr(r.op) \/ r.op = Zero
                 THEN [st EXCEPT !.returned = r.op,
                                 !.calls = Append(@, Call(op, st.npart, r))]
                 ELSE [ops |-> Append(st.ops, IF r.npart_right = <<>> THEN NoneResult
                                              ELSE r.op),
                       ops_reeval |-> IF r.npart_right = <<>> THEN Append(st.ops_reeval, r.op)
                                      ELSE st.ops_reeval,
                       first_npart |-> IF r.npart_right # <<>> /\ st.first_npart = <<>>
                                       THEN r.npart_right ELSE st.first_npart,
                       npart |-> r.npart_left,
                       nsymm |-> r.nsymm,
                       calls |-> Append(st.calls, Call(op, st.npart, r)),
                       recalls |-> st.recalls,
                       returned |-> NoneResult]
         IN  ScanLoop(SubSeq(todo, 1, Len(todo) - 1),
                      Step(project_physical_op(op, st.npart, st.nsymm, symmetry, raising)),
                      symmetry, raising)

\* The loop over enumerate(ops_reeval), from position iop on.
RECURSIVE ReevalLoop(_, _, _, _)
ReevalLoop(iop, st, symmetry, raising) ==
    IF iop > Len(st.ops_reeval) \/ st.returned # NoneResult THEN st
    ELSE LET op == st.ops_reeval[iop]
             Step(r) ==
                 IF IsErr(r.op)
                 THEN [st EXCEPT !.returned = r.op,
                                 !.recalls = Append(@, Call(op, st.npart, r))]
                 ELSE [st EXCEPT !.ops[iop] = r.op,
                                 !.npart = r.npart_left,
                                 !.nsymm = r.nsymm,
                                 !.recalls = Append(@, Call(op, st.npart, r))]
         IN  ReevalLoop(iop + 1,
                        Step(project_physical_op(op, st.npart, st.nsymm, symmetry, raising)),
                        symmetry, raising)

\* the local variables of the Mul branch of project_physical when it returns
ProjectFactors(expr, npart, nsymm, symmetry, raising) ==
    LET Reevaluated(st) ==
            IF st.returned # NoneResult THEN st
            ELSE IF st.first_npart = <<>> THEN [st EXCEPT !.ops = st.ops_reeval]
            ELSE ReevalLoop(1, [st EXCEPT !.npart = st.first_npart, !.nsymm = nsymm],
                            symmetry, raising)
    IN  Reevaluated(ScanLoop(ExpandPowers(NcPart(expr)),
                             [ops |-> <<>>, ops_reeval |-> <<>>, first_npart |-> <<>>,
                              npart |-> npart, nsymm |-> nsymm,
                              calls |-> <<>>, recalls |-> <<>>, returned |-> NoneResult],
                             symmetry, raising))

\* ops[::-1]
RECURSIVE Backwards(_)
Backwards(ops) ==
    IF ops = <<>> THEN <<>> ELSE Append(Backwards(Tail(ops)), Head(ops))

\* project_physical(expr, **options) of an expanded expression
RECURSIVE ProjectExpanded(_, _, _, _, _)
ProjectExpanded(expr, npart, nsymm, symmetry, raising) ==
    CASE IsErr(expr) -> expr
      [] IsAdd(expr) ->
            LET terms == [i \in 1..Len(expr.a) |->
                             ProjectExpanded(Expand(expr.a[i], TRUE), npart, nsymm,
                                             symmetry, raising)]
            IN  Expand(MkAdd(SelectSeq(terms, LAMBDA term : term # Zero)), FALSE)
      [] IsMul(expr) ->
            LET Returned(st) == IF st.returned # NoneResult THEN st.returned
                                ELSE MkMul(CPart(expr) \o Backwards(st.ops))
            IN  Returned(ProjectFactors(expr, npart, nsymm, symmetry, raising))
      [] OTHER -> project_physical_op(expr, npart, nsymm, symmetry, raising).op

\* project_physical(expr, **options)
project_physical(expr, npart, nsymm, symmetry, raising) ==
    ProjectExpanded(Expand(expr, TRUE), npart, nsymm, symmetry, raising)

\* the largest number of factors of a product that is projected
MaxFactors == 3

\* ParticleBra(p, q) and the null bra
ParticleBra(p, q) ==
    Node("ParticleBra", <<>>, <<Node("MomentumBra", <<>>, <<OrthogonalBra(p)>>),
                                Node("QNumberBra", <<>>, <<OrthogonalBra(q)>>)>>)
NullBra == Node("ParticleBra", <<>>, <<Zero>>)

\* operators on a register of two particle slots: projections (one particle,
\* two particles), a creation and an annihilation in the second slot, and a
\* creation in the second slot of an empty register
RegisterOps ==
    {PlainTensorProduct(<<Presence, Absence>>),
     PlainTensorProduct(<<Presence, Presence>>),
     PlainTensorProduct(<<Presence, MkOuter(ParticleKet(1, 1), NullBra)>>),
     PlainTensorProduct(<<Presence, MkOuter(NullKet, ParticleBra(1, 1))>>),
     PlainTensorProduct(<<Absence, MkOuter(ParticleKet(1, 1), NullBra)>>)}

\* the factors of the products that are projected
ProjectedFactors ==
    RegisterOps \cup {StepSymmetrizer(2), FieldFreeEvolution(1),
                     Power(FieldFreeEvolution(1), -1, TRUE)}

\* the optional particle numbers given as npart and nsymm
Numbers == {<<>>, <<1>>, <<2>>}

\* project_physical is about to be called on the product mid with the options
\* npart = seq[1], nsymm = seq[2], symmetry = pos and
\* raise_on_subspace_violation = evaluate
InitProject ==
    /\ \E n \in 1..MaxFactors :
          \E factors \in [1..n -> ProjectedFactors] :
              mid = MkMul(<<Integer(2)>> \o factors)
    /\ seq \in Numbers \X Numbers
    /\ pos \in {0, 1}
    /\ evaluate \in BOOLEAN
    /\ left = One /\ right = One /\ exp = 1
    /\ cls = "Mul"
    /\ pc = "physical"

\* the options of the caller: none, or the counters of an enclosing call
CallerOptions == {[k \in {} |-> 0], [k \in {"rec_depth", "rec_depth_mul"} |-> 1]}

Init ==
    /\ \/ InitProduct \/ InitSum \/ InitTensor \/ InitPermutation \/ InitInner
       \/ InitProject
    /\ options \in CallerOptions
    /\ out = NoneResult
    /\ ref = NoneResult

\* The callers of apply_op, by position pc:
\*   product .. renormalized:  out = apply_op(left * mid**exp * right), then
\*                         ref = apply_op(out), then ref = apply_op of the
\*                         product once more
\*   sum .. sum_ab:        out = apply_op(a + b), then
\*                         ref = apply_op(apply_op(a) + apply_op(b))
\*   apply .. apply_y:     out = apply_op(left * (mid + right)), then
\*                         ref = apply_op(a) + apply_op(b)
\*   tensor, parts:        out = apply_op(cls(left + mid, right)), then
\*                         ref = apply_op(cls(left, right) + cls(mid, right))
\* with a = left * mid and b = left * right.
Then == [product |-> "normalized", normalized |-> "renormalized",
         renormalized |-> "repeated",
         sum |-> "sum_a", sum_a |-> "sum_b", sum_b |-> "sum_ab", sum_ab |-> "summed",
         apply |-> "apply_x", apply_x |-> "apply_y", apply_y |-> "applied",
         tensor |-> "parts", parts |-> "distributed"]

\* the expression passed to apply_op at position pc
Argument ==
    LET Of(a, b) == CASE pc = "sum" -> MkAdd(<<a, b>>)
                      [] pc \in {"sum_a", "apply_x"} -> a
                      [] OTHER -> b
    IN  CASE pc \in {"product", "renormalized"} -> Input
          [] pc = "normalized" -> out
          [] pc = "sum_ab" -> ref
          [] pc = "apply" -> MkMul(<<left, MkAdd(<<mid, right>>)>>)
          [] pc = "tensor" -> Whole
          [] pc = "parts" -> Parts
          [] OTHER -> Of(MkMul(<<left, mid>>), MkMul(<<left, right>>))

\* One call of apply_op(e, **options).  The caller goes on only while no call
\* has raised; the result is kept in out, kept in ref, or added to ref.
ApplyOp ==
    /\ pc \in DOMAIN Then
    /\ ~IsErr(out) /\ ~IsErr(ref)
    /\ LET Returned(r) ==
               /\ out' = IF pc \in {"product", "sum", "apply", "tensor"} THEN r ELSE out
               /\ ref' = CASE pc \in {"product", "sum", "apply", "tensor"} -> ref
                           [] pc \in {"sum_b", "apply_y"} -> MkAdd(<<ref, r>>)
                           [] OTHER -> r
       IN  Returned(normalize(Argument))
    /\ options' = Calls(<<options>>, 1, MaxNested)[1]
    /\ pc' = Then[pc]
    /\ UNCHANGED operands

\* cls(*seq)
Construct ==
    /\ pc = "indices"
    /\ out' = IF cls = "PermutationOperator" THEN PermutationOperatorNew(seq)
              ELSE ParticlePermutationNew(seq)
    /\ pc' = "constructed"
    /\ UNCHANGED <<operands, options, ref>>

\* generate_perm(seq)
Permute ==
    /\ pc = "sequence"
    /\ out' = GeneratePerm(seq)
    /\ pc' = "permuted"
    /\ UNCHANGED <<operands, options, ref>>

\* right._eval_innerproduct(mid), and the same call on the two product states
\* with their components in the order seq
EvalInnerProduct ==
    /\ pc = "braket"
    /\ out' = eval_innerproduct(right, mid)
    /\ ref' = eval_innerproduct(ProductKet(Arranged(right.a, seq)),
                                Node("ProductBra", <<>>, Arranged(mid.a, seq)))
    /\ pc' = "multiplied"
    /\ UNCHANGED <<operands, options>>

\* out is a PermutationOperator or a SwapOperator with its indices
Permuting ==
    /\ pc = "constructed" /\ cls = "PermutationOperator"
    /\ out.t \in {"PermutationOperator", "SwapOperator"}

\* the product ket with the labels 0 .. MaxLabel
LabelKet == Node("ProductKet", [k \in 1..(MaxLabel + 1) |-> k - 1], <<>>)

\* PermutationOperator.from_swaps(out.to_swaps())
RoundTrip ==
    /\ Permuting
    /\ ref' = from_swaps(to_swaps(out.p))
    /\ pc' = "rebuilt"
    /\ UNCHANGED <<operands, options, out>>

\* out._eval_inverse() applied to out applied to the product ket
Invert ==
    /\ Permuting
    /\ ref' = PermutationApply(eval_inverse(out), PermutationApply(out, LabelKet))
    /\ pc' = "inverted"
    /\ UNCHANGED <<operands, options, out>>

\* project_physical(mid, npart=seq[1], nsymm=seq[2], symmetry=pos,
\*                  raise_on_subspace_violation=evaluate)
Project ==
    /\ pc = "physical"
    /\ ref' = project_physical(mid, seq[1], seq[2], pos, evaluate)
    /\ pc' = "projected"
    /\ UNCHANGED <<operands, options, out>>

Next ==
    \/ ApplyOp \/ Construct \/ Permute \/ EvalInnerProduct \/ RoundTrip \/ Invert
    \/ Project

Spec == Init /\ [][Next]_vars

\* every reachable result lies within what the model covers
NoUnsupported == out # Unsupported /\ ref # Unsupported

\* C1: a second call of apply_op on a result that the first call returned
\* gives that result again, structurally unchanged
Idempotent == pc = "renormalized" => ref = out

\* the pairwise dispatch of apply_op_Mul on lhs * rhs reports 'no interaction'
NoInteraction(u, v) == apply_op_Mul(MkMul(<<u, v>>), 0) = MkMul(<<u, v>>)

\* C2: when apply_op returns a product, the dispatch of apply_op_Mul reports
\* 'no interaction' for every adjacent pair of its non-commuting factors
Irreducible ==
    IsMul(out) =>
        \A i \in 1..(Len(NcPart(out)) - 1) : NoInteraction(NcPart(out)[i], NcPart(out)[i + 1])

\* C3: apply_op returns: neither the recursion through apply_op_Mul nor the
\* while-loop over a Mul runs forever
Terminates == out \notin {RecursionError, Hang} /\ ref \notin {RecursionError, Hang}

\* C5: apply_op(a + b) equals apply_op(apply_op(a) + apply_op(b))
SumLinear == pc = "summed" => out = ref

\* C6: apply_op(cls(a + b, c)) equals apply_op(cls(a, c) + cls(b, c)) for the
\* plain TensorProduct and its subclasses, for a sum in either slot or in both
TensorDistributes == pc = "distributed" => out = ref

\* C8: apply_op(Op * (x + y)) equals apply_op(Op * x) + apply_op(Op * y)
OperatorDistributes == pc = "applied" => out = ref

\* some factor of the product e, or some slot of the tensor product e,
\* normalizes to zero
HasZeroPart(e) ==
    \/ IsMul(e) /\ \E i \in 1..Len(e.a) : normalize(e.a[i]) = Zero
    \/ IsTensorProduct(e) /\ \E i \in 1..Len(e.a) : normalize(e.a[i]) = Zero

\* C4: apply_op returns zero for a product with a factor, and for a tensor
\* product (plain, product state or product operator) with a slot, that
\* normalizes to zero
ZeroAbsorbed == pc = "normalized" /\ HasZeroPart(Input) => out = Zero

SlotProduct(i) == normalize(MkMul(<<mid.a[i], right.a[i]>>))

\* slot i gives 0 and every slot before it returns
ZeroSlot(i) == SlotProduct(i) = Zero /\ \A j \in 1..(i - 1) : ~IsErr(SlotProduct(j))

\* C9: the product of two tensor products of equal arity normalizes to 0 when
\* a slot product is 0, whichever slot it is and whatever the other slots give;
\* the slots after the first zero slot are not evaluated
ZeroSlotAbsorbs ==
    pc = "normalized" /\ left = One /\ exp = 1
      /\ mid \in TensorOps /\ right \in TensorStates \cup FieldKets
      /\ (\E i \in 1..Len(mid.a) : ZeroSlot(i))
    => out = Zero

ZeroSlotWitness ==
    /\ pc = "normalized" /\ left = One
    /\ mid \in TensorOps /\ right \in TensorStates
    /\ ZeroSlot(1) /\ IsErr(SlotProduct(2))
    /\ out = Zero

\* the swap of particles 0 and 1 applied n times to a field state of two particles
RECURSIVE SwapTimes(_, _)
SwapTimes(state, n) ==
    IF n = 0 THEN state
    ELSE LET s == SwapTimes(state, n - 1) IN Node(s.t, <<>>, <<s.a[2], s.a[1]>>)

\* C10: apply_op(S**n * state) is S applied n times to the state, and
\* S**2 * state is the state, for the swap S of particles 0 and 1
SwapPower ==
    pc = "normalized" /\ left = One /\ mid = ParticleSwap(0, 1) /\ exp >= 1
      /\ right \in FieldKets
    => out = SwapTimes(right, exp) /\ (exp = 2 => out = right)

SwapPowerWitness ==
    /\ pc = "normalized" /\ left = One /\ mid = ParticleSwap(0, 1)
    /\ exp = 2 /\ ~evaluate
    /\ right \in FieldKets /\ right.a[1] # right.a[2]
    /\ out = right

IrreducibleWitness ==
    /\ pc = "normalized" /\ IsMul(out) /\ out # Input
    /\ Len(NcPart(out)) >= 2

\* the expression x is e or a part of e
RECURSIVE Occurs(_, _)
Occurs(x, e) == e = x \/ \E i \in 1..Len(e.a) : Occurs(x, e.a[i])

\* mid is an outer product |a><b| and right a ket |c> with <b|c> = 0
OrthogonalOuter ==
    /\ left = One /\ exp = 1
    /\ IsOuterProduct(mid) /\ IsKetBase(right)
    /\ DoIt(mid.a[2], right) = Zero

\* C11: apply_op(|a><b| * |c>) with <b|c> = 0 returns 0, and |a> is part of
\* no expression that apply_op returns: the bra meets |c> first and the zero
\* ends the call before |a> is put back
OuterShortCircuit ==
    pc \in {"normalized", "renormalized"} /\ OrthogonalOuter
    => out = Zero /\ ~Occurs(mid.a[1], out) /\ ~Occurs(mid.a[1], ref)

OuterShortCircuitWitness ==
    /\ pc = "renormalized" /\ OrthogonalOuter
    /\ mid.t = "ProductOuterProduct" /\ right.a[1] = mid.a[1].a[1]
    /\ out = Zero /\ ref = Zero

\* rule k of the dispatch of apply_op_Mul applies to the pair (lhs, rhs): power
\* splitting, outer-product unfolding, commutator resolution, slot-wise
\* combination, operator acts on state, state accepts operator from the right,
\* inner-product closure, no interaction
RuleApplies(k, lhs, rhs) ==
    CASE k = 1 -> IsPow(lhs)
      [] k = 2 -> IsOuterProduct(lhs)
      [] k = 3 -> IsCommutator(lhs)
      [] k = 4 -> IsSlotWise(lhs, rhs)
      [] k = 5 -> apply_operator(lhs, rhs) # NotImplementedError
      [] k = 6 -> apply_from_right_to(rhs, lhs) # NotImplementedError
      [] k = 7 -> IsBraBase(lhs) /\ IsKetBase(rhs)
      [] OTHER -> TRUE

FirstRule(lhs, rhs) ==
    CHOOSE k \in 1..8 :
        RuleApplies(k, lhs, rhs) /\ \A j \in 1..(k - 1) : ~RuleApplies(j, lhs, rhs)

\* what apply_op_Mul makes of the product e = args * lhs * rhs when the pair
\* (lhs, rhs) is settled by its first applicable rule alone
RECURSIVE ByPriority(_, _, _, _, _)
ByPriority(e, args, lhs, rhs, d) ==
    LET k == FirstRule(lhs, rhs)
        Slots(sl) ==
            IF IsErr(sl) \/ sl = Zero THEN sl
            ELSE apply_op(PyMul(MkMul(args), SlotResult(sl.a, rhs)), d + 1)
        Finish(result) ==
            CASE IsErr(result) -> result
              [] result = Zero -> Zero
              [] result = NoneResult ->
                    IF args = <<>> THEN e
                    ELSE PyMul(apply_op_Mul(MkMul(Append(args, lhs)), d + 1), rhs)
              [] IsInnerProduct(result) ->
                    PyMul(result, apply_op_Mul(MkMul(args), d + 1))
              [] OTHER -> apply_op(PyMul(MkMul(args), result), d + 1)
    IN  CASE k = 1 -> ByPriority(e, Append(args, PowRest(lhs)), lhs.a[1], rhs, d)
          [] k = 2 -> ByPriority(e, Append(args, lhs.a[1]), lhs.a[2], rhs, d)
          [] k = 3 -> apply_op(Resolved(args, CommutatorDoIt(lhs), rhs), d + 1)
          [] k = 4 -> Slots(SlotLoop(lhs.a, rhs.a, <<>>, d))
          [] k = 5 -> Finish(apply_operator(lhs, rhs))
          [] k = 6 -> Finish(apply_from_right_to(rhs, lhs))
          [] k = 7 -> Finish(DoIt(lhs, rhs))
          [] OTHER -> Finish(NoneResult)

\* the products whose first round of the loop of apply_op is one call of
\* apply_op_Mul on at least two non-commuting factors
Dispatched ==
    /\ pc \in {"normalized", "renormalized"}
    /\ IsMul(Input) /\ Expand(Input, TRUE) = Input /\ Len(NcPart(Input)) >= 2

\* the first rule that applies to the last two factors of Input
InputRule ==
    FirstRule(NcPart(Input)[Len(NcPart(Input)) - 1], NcPart(Input)[Len(NcPart(Input))])

\* C12: the rules are tried in the fixed order 1..8 on every candidate pair:
\* the product that apply_op returns is the one that follows from the first
\* rule that applies to the pair, whatever the later rules would give
DispatchPriority ==
    Dispatched =>
        LET nc == NcPart(Input)
            n == Len(nc)
            r == PyMul(MkMul(CPart(Input)),
                       ByPriority(MkMul(nc), SubSeq(nc, 1, n - 2), nc[n - 1], nc[n], 1))
        IN  out = IF IsErr(r) \/ r = Input THEN r ELSE MulLoop(r, 0, 1)

\* the left operator acts (rule 5) although the right one would accept it
\* from the right with another result (rule 6)
DispatchPriorityWitness ==
    /\ Dispatched /\ left = One /\ exp = 1
    /\ InputRule = 5
    /\ RuleApplies(6, mid, right)
    /\ apply_from_right_to(right, mid) # apply_operator(mid, right)
    /\ out = Zero

\* mid and right are tensor products of unequal arity, neither the null state
UnequalArity ==
    /\ left = One /\ exp = 1
    /\ IsTensorProduct(mid) /\ IsTensorProduct(right)
    /\ ~IsNullState(mid) /\ ~IsNullState(right)
    /\ Len(mid.a) # Len(right.a)

\* C13: apply_op raises when the two factors of a product are tensor products
\* of unequal arity; it does not return the product or any other value
ArityFatal == pc \in {"normalized", "renormalized"} /\ UnequalArity => IsErr(out)

\* u and v are tensor products of unequal arity, or have such a pair of slots
RECURSIVE ArityClash(_, _)
ArityClash(u, v) ==
    /\ IsTensorProduct(u) /\ IsTensorProduct(v)
    /\ \/ Len(u.a) # Len(v.a)
       \/ \E i \in 1..Len(u.a) : ArityClash(u.a[i], v.a[i])

\* C14: apply_op returns a value for every product left * mid**exp * right; it
\* raises nothing but the error of an arity mismatch between two factors
Total ==
    pc \in {"normalized", "renormalized"} /\ IsErr(out)
    => /\ out = ValueError
       /\ ArityClash(left, mid) \/ ArityClash(mid, right) \/ ArityClash(left, right)

\* the pair (u, v) does not interact: once u is split or unfolded, no rule
\* before 'no interaction' applies to what is dispatched against v
Inert(u, v) == FirstRule(OuterBra(BaseOf(u)), v) = 8

\* no adjacent pair of the non-commuting factors of e interacts
AllInert(e) ==
    \A i \in 1..(Len(NcPart(e)) - 1) : Inert(NcPart(e)[i], NcPart(e)[i + 1])

\* C15: when no adjacent pair of its factors interacts, apply_op_Mul returns
\* the product it was given, with the same factors in the same order, also
\* when a factor is a power or an outer product; apply_op then returns it too
Unchanged ==
    Dispatched /\ AllInert(Input)
    => /\ apply_op_Mul(MkMul(NcPart(Input)), 1) = MkMul(NcPart(Input))
       /\ out = Input

Required == IF cls \in ProductOperatorClasses THEN "Operator" ELSE ComponentClass(cls)

\* c is of the required class, or a sum or a scalar-weighted product whose
\* non-commuting factors are all of that class
Acceptable(c) ==
    \/ Required = ""
    \/ IsInstance(c, Required)
    \/ /\ IsAdd(c)
       /\ \A i \in 1..Len(c.a) : \A j \in 1..Len(NcPart(c.a[i])) :
              IsInstance(NcPart(c.a[i])[j], Required)
    \/ /\ IsMul(c)
       /\ \A j \in 1..Len(NcPart(c)) : IsInstance(NcPart(c)[j], Required)

\* the constructor of cls is called on Components
Constructed == cls \in TensorClasses /\ pc \in {"tensor", "parts", "distributed"}

\* some component is zero and cls absorbs it before it checks the kinds
ZeroComponent ==
    /\ cls \notin ProductOperatorClasses
    /\ \E i \in 1..Len(Components) : Components[i] = Zero

RepetitionRaises ==
    (pc = "constructed" /\ HasRepetition(seq)) => out = ValueError

\* the entries of the list that generate_perm returned
Entries == [i \in 1..Len(out.a) |-> out.a[i].p]

RECURSIVE Factorial(_)
Factorial(n) == IF n <= 1 THEN 1 ELSE n * Factorial(n - 1)

\* the sign of the ordering e of seq: +1 when the number of inversions is even
Sign(e) ==
    LET At(x) == CHOOSE i \in 1..Len(seq) : seq[i] = x
        inversions == {ij \in (1..Len(e)) \X (1..Len(e)) :
                          ij[1] < ij[2] /\ At(e[ij[1]]) > At(e[ij[2]])}
    IN  IF Cardinality(inversions) % 2 = 0 THEN 1 ELSE 0 - 1

\* the list holds every ordering of seq once, starts from seq, and moves from
\* each entry to the next by one swap, so that the signs alternate
AllBySwaps ==
    /\ out.t = "list"
    /\ Len(Entries) = Factorial(Len(seq))
    /\ \A i \in 1..Len(Entries) :
          /\ Len(Entries[i]) = Len(seq)
          /\ {Entries[i][k] : k \in 1..Len(seq)} = {seq[k] : k \in 1..Len(seq)}
          /\ Sign(Entries[i]) = (IF i % 2 = 1 THEN 1 ELSE 0 - 1)
    /\ \A i, j \in 1..Len(Entries) : i # j => Entries[i] # Entries[j]
    /\ Entries[1] = seq
    /\ \A i \in 1..(Len(Entries) - 1) :
          Cardinality({k \in 1..Len(seq) : Entries[i][k] # Entries[i + 1][k]}) = 2

\* C19: generate_perm(seq) returns all the n! orderings of seq, each once,
\* starting from seq, each entry one swap away from the one before it, with
\* alternating signs
Alternating == pc = "permuted" => AllBySwaps

\* generate_perm does so for every sequence that is not empty
AlternatingNonEmpty == (pc = "permuted" /\ seq # <<>>) => AllBySwaps

\* the left factor of the candidate pair of Input
Candidate == NcPart(Input)[Len(NcPart(Input)) - 1]

\* C20: the power split fires only on a Power with a positive integer
\* exponent n and leaves Power(base, n - 1) behind, an exponent that is never
\* negative, and the identity when it is 0
PositiveSplit ==
    (Dispatched /\ SplitFires(Candidate)) =>
        /\ Candidate.p[1] > 0
        /\ ExpOf(PowRest(Candidate)) >= 0
        /\ Candidate.p[1] = 1 => PowRest(Candidate) = One

\* the candidate pair of Input once a power is split and an outer product is
\* pulled apart, and the factors to its left
PairRhs == NcPart(Input)[Len(NcPart(Input))]
PairLhs == OuterBra(BaseOf(Candidate))
PairArgs ==
    SubSeq(NcPart(Input), 1, Len(NcPart(Input)) - 2)
      \o (IF IsPow(Candidate) THEN <<PowRest(Candidate)>> ELSE <<>>)
      \o (IF IsOuterProduct(BaseOf(Candidate)) THEN <<BaseOf(Candidate).a[1]>> ELSE <<>>)

\* the pair of Input goes to the capabilities of its members
Capable ==
    /\ Dispatched
    /\ ~IsCommutator(PairLhs) /\ ~IsSlotWise(PairLhs, PairRhs)

\* what apply_op returns for Input when result is the result of its pair
Settled(result) ==
    LET Finish ==
            CASE IsErr(result) -> result
              [] result = Zero -> Zero
              [] result = NoneResult ->
                    IF PairArgs = <<>> THEN MkMul(NcPart(Input))
                    ELSE PyMul(apply_op_Mul(MkMul(Append(PairArgs, PairLhs)), 2), PairRhs)
              [] IsInnerProduct(result) ->
                    PyMul(result, apply_op_Mul(MkMul(PairArgs), 2))
              [] OTHER -> apply_op(PyMul(MkMul(PairArgs), result), 2)
        Loop(r) == IF IsErr(r) \/ r = Input THEN r ELSE MulLoop(r, 0, 1)
    IN  Loop(PyMul(MkMul(CPart(Input)), Finish))

\* lhs._apply_operator(rhs) did not apply to the pair
LeftFailed == apply_operator(PairLhs, PairRhs) \in {NotImplementedError, NoneResult}

\* rhs has an _apply_from_right_to that takes lhs
RightDeclared == apply_from_right_to(PairRhs, PairLhs) # NotImplementedError

RightFailed ==
    apply_from_right_to(PairRhs, PairLhs) \in {NotImplementedError, NoneResult}

Prefixed ==
    /\ pc \in {"normalized", "renormalized"}
    /\ IsMul(Input) /\ Expand(Input, TRUE) = Input
    /\ CPart(Input) # <<>>

\* C23: apply_op returns c times the reduction of the non-commuting factors
\* N; c is there once, and fewer than two non-commuting factors come back
\* with c in front
ScalarPrefix ==
    Prefixed =>
        /\ out = PyMul(MkMul(CPart(Input)), normalize(MkMul(NcPart(Input))))
        /\ (Len(NcPart(Input)) < 2 /\ ~IsTensorProduct(NcPart(Input)[1])
               /\ ~IsPow(NcPart(Input)[1]))
              => out = Input

\* twice a product that reduces to a state
ScalarPrefixWitness ==
    /\ Prefixed /\ Len(NcPart(Input)) = 2
    /\ ~IsErr(out) /\ out # Input /\ out # Zero
    /\ IsMul(out) /\ CPart(out) = CPart(Input) /\ Len(NcPart(out)) = 1

\* The pairs that apply_op_Mul dispatches while apply_op reduces one product,
\* in the order of the calls: <<lhs, rhs, interacted>> for each pair that
\* reaches the capabilities.  The pairs inside the slots of a tensor product
\* and inside the terms of a sum belong to other products and are left out.
RECURSIVE PairsOfMul(_, _)
RECURSIVE PairsOfLoop(_, _, _)
PairsOf(e0, d) ==
    LET Expanded(e) == IF IsErr(e) \/ ~IsMul(e) THEN <<>> ELSE PairsOfLoop(e, d, 0)
    IN  IF IsErr(e0) \/ d > RecLimit \/ e0 = Zero THEN <<>>
        ELSE Expanded(Expand(e0, TRUE))

PairsOfLoop(e, d, k) ==
    IF ~IsMul(e) \/ k > LoopLimit THEN <<>>
    ELSE LET c_mul == MkMul(CPart(e))
             nc_mul == MkMul(NcPart(e))
             Round(result) == IF IsErr(result) \/ result = e THEN <<>>
                              ELSE PairsOfLoop(result, d, k + 1)
         IN  (IF IsMul(nc_mul) THEN PairsOfMul(nc_mul, d + 1) ELSE PairsOf(nc_mul, d + 1))
               \o Round(PyMul(c_mul, IF IsMul(nc_mul) THEN apply_op_Mul(nc_mul, d + 1)
                                     ELSE apply_op(nc_mul, d + 1)))

PairsOfMul(e, d) ==
    IF IsErr(e) \/ d > RecLimit \/ ~IsMul(e) \/ Len(MulArgs(e)) <= 1 THEN <<>>
    ELSE
    LET all == MulArgs(e)
        rhs == all[Len(all)]
        lhs0 == all[Len(all) - 1]
        lhs1 == BaseOf(lhs0)
        lhs == OuterBra(lhs1)
        args == SubSeq(all, 1, Len(all) - 2)
                  \o (IF SplitFires(lhs0) THEN <<PowRest(lhs0)>> ELSE <<>>)
                  \o (IF IsOuterProduct(lhs1) THEN <<lhs1.a[1]>> ELSE <<>>)
        After(result) ==
            <<<<lhs, rhs, result.t # "None">>>> \o
            (CASE IsErr(result) \/ result = Zero -> <<>>
               [] result = NoneResult ->
                     IF args = <<>> THEN <<>>
                     ELSE PairsOfMul(MkMul(Append(args, lhs)), d + 1)
               [] IsInnerProduct(result) -> PairsOfMul(MkMul(args), d + 1)
               [] OTHER -> PairsOf(PyMul(MkMul(args), result), d + 1))
    IN  IF IsCommutative(rhs) \/ IsCommutative(lhs0) \/ IsCommutator(lhs)
           \/ IsSlotWise(lhs, rhs)
        THEN <<>>
        ELSE After(Dispatch(lhs, rhs))

\* the pairs dispatched while apply_op reduces Input
Scan == PairsOf(Input, 0)

\* C24: the scan starts with the two rightmost non-commuting factors; a pair
\* that does not interact stays in the result in its order, the scan goes on
\* with the pair one place to the left, and the pair is dispatched again only
\* when that pair to its left interacted and so replaced its left member
NoRetry ==
    Capable =>
        LET scan == Scan
        IN  /\ Len(scan) > 0
            /\ scan[1][1] = PairLhs /\ scan[1][2] = PairRhs
            /\ (~scan[1][3] /\ PairArgs # <<>> /\ ~IsPow(Candidate) /\ Len(scan) > 1)
                  => scan[2][2] = PairLhs
            /\ (~scan[1][3] /\ ~IsErr(out) /\ IsMul(out))
                  => /\ NcPart(out)[Len(NcPart(out))] = PairRhs
                     /\ PairArgs = <<>> => out = Input
            /\ \A i, j \in 1..Len(scan) :
                  (i < j /\ ~scan[i][3] /\ scan[j] = scan[i])
                    => scan[i + 1][2] = scan[i][1] /\ scan[i + 1][3]

\* what the capabilities give for the pair of Input
PairResult == Dispatch(PairLhs, PairRhs)

\* the pair of Input gave an expression that goes back into the product
Yielded ==
    /\ Capable
    /\ ~IsErr(PairResult) /\ PairResult \notin {Zero, NoneResult}
    /\ ~IsInnerProduct(PairResult)

\* apply_op.py:198: the factors left of the pair times the result of the pair
Spliced == PyMul(MkMul(PairArgs), PairResult)

\* the non-commuting factors of a product in their order; Python's * makes
\* an OuterProduct of a ket and a bra and an InnerProduct of a bra and a ket
RECURSIVE Unfolded(_)
Unfolded(s) ==
    IF s = <<>> THEN <<>>
    ELSE (IF IsOuterProduct(Head(s)) THEN Head(s).a ELSE <<Head(s)>>)
           \o Unfolded(Tail(s))

Factors(e) == IF IsInnerProduct(e) THEN e.a ELSE Unfolded(NcPart(e))

\* the factors left of the pair of Input as one product
PairLeft == MkMul(PairArgs)

\* C25: the result of the pair takes the place of the two factors of the pair
\* at the right end: the non-commuting factors of the new product are the
\* factors left of the pair, each once and in their order, and then those of
\* the result; apply_op returns the normal form of the new product, and on
\* the way there the result is dispatched against the factor now on its left
SpliceRestart ==
    Yielded =>
        LET scan == Scan
            last == NcPart(PairLeft)[Len(NcPart(PairLeft))]
        IN  /\ Len(scan) > 0
            /\ Factors(Spliced) = Unfolded(NcPart(PairLeft) \o NcPart(PairResult))
            /\ out = Settled(PairResult)
            /\ (/\ NcPart(PairLeft) # <<>> /\ Len(NcPart(PairResult)) = 1
                /\ ~IsAdd(NcPart(PairResult)[1])
                /\ ~IsCommutator(OuterBra(BaseOf(last)))
                /\ ~IsSlotWise(OuterBra(BaseOf(last)), NcPart(PairResult)[1]))
                  => /\ Len(scan) > 1
                     /\ scan[2][1] = OuterBra(BaseOf(last))
                     /\ scan[2][2] = NcPart(PairResult)[1]

\* a swap turns a ket into another and the operator on its left meets the
\* new ket
SpliceRestartWitness ==
    /\ Yielded /\ PairArgs # <<>> /\ Len(NcPart(PairResult)) = 1
    /\ PairResult # PairRhs
    /\ IsOperator(PairArgs[Len(PairArgs)])
    /\ ~IsErr(out) /\ out # Zero

\* the last two factors of Input are tensor products that meet slot by slot
SlotWise ==
    /\ Dispatched
    /\ ~IsCommutator(PairLhs) /\ IsSlotWise(PairLhs, PairRhs)

\* apply_op.py:139-145 for the pair of Input
SlotResults == SlotLoop(PairLhs.a, PairRhs.a, <<>>, 1)

\* apply_op.py:147-157 for the pair of Input
Combined == SlotResult(SlotResults.a, PairRhs)

\* no slot is null and some slot result is not a number
Mixed ==
    /\ SlotWise
    /\ LET sl == SlotResults
       IN  /\ ~IsErr(sl) /\ sl # Zero
           /\ Len(sl.a) > 0
           /\ \E i \in 1..Len(sl.a) : ~IsNumber(sl.a[i])

\* one term of every slot that is a sum, the other slots as they are
RECURSIVE Choices(_)
Choices(results) ==
    IF results = <<>> THEN {<<>>}
    ELSE LET h == Head(results)
         IN  {<<x>> \o t : x \in (IF IsAdd(h) THEN {h.a[i] : i \in 1..Len(h.a)} ELSE {h}),
                           t \in Choices(Tail(results))}

\* a tensor product of arity n, with or without a number in front
HasArity(e, n) ==
    /\ ~IsErr(e) /\ Len(NcPart(e)) = 1
    /\ IsTensorProduct(NcPart(e)[1]) /\ Len(NcPart(e)[1].a) = n

\* the tensor product of the class of rhs for one choice, numbers in front
Chosen(ch, rhs) ==
    PyMul(MkMul(ConcatCParts(ch)),
          ClassNew(rhs.t, [i \in 1..Len(ch) |-> FromArgs(NcPart(ch[i]))]))

\* C26: two tensor products of arity n that meet slot by slot, not every slot
\* giving a number, give a tensor product of arity n; when a slot gives a
\* sum they give a sum of tensor products of arity n, one for every choice of
\* one term per sum, each choice once, with the numbers in front
SlotArity ==
    Mixed =>
        LET n == Len(PairRhs.a)
            res == SlotResults.a
            r == Combined
        IN  /\ Len(res) = n
            /\ out = Settled(r)
            /\ IF \E i \in 1..n : IsAdd(res[i])
               THEN /\ IsAdd(r)
                    /\ Len(r.a) = Cardinality(Choices(res))
                    /\ \A k \in 1..Len(r.a) : HasArity(r.a[k], n)
                    /\ \A c \in Choices(res) :
                          Cardinality({k \in 1..Len(r.a) : r.a[k] = Chosen(c, PairRhs)}) = 1
               ELSE HasArity(r, n)

\* a slot gave a sum of two terms
SlotArityWitness ==
    /\ Mixed /\ ~IsErr(out)
    /\ LET res == SlotResults.a
       IN  /\ Len(res) > 0
           /\ \E i \in 1..Len(res) : IsAdd(res[i]) /\ Len(res[i].a) = 2

\* the expression whose normal form is in out
Given ==
    CASE pc \in {"normalized", "renormalized", "repeated"} -> Input
      [] pc \in {"parts", "distributed"} -> Whole
      [] OTHER -> Zero

\* a tensor product without a sum in a slot, whose slots all have a normal
\* form other than 0
PlainSlots(e) ==
    /\ ~IsErr(e) /\ IsTensorProduct(e)
    /\ Len(e.a) > 0
    /\ Expand(e, TRUE) = e
    /\ \A i \in 1..Len(e.a) : ~IsErr(normalize(e.a[i])) /\ normalize(e.a[i]) # Zero

\* C27: apply_op of a tensor product, a product ket or product bra included,
\* is the tensor product of the same class and arity whose slots are the
\* normal forms of the slots
TensorNormal ==
    LET e == Given
    IN  PlainSlots(e) =>
            /\ out = ClassNew(e.t, [i \in 1..Len(e.a) |-> normalize(e.a[i])])
            /\ HasArity(out, Len(e.a))
            /\ NcPart(out)[1].t = e.t

\* a product bra with a slot that is not in normal form
TensorNormalWitness ==
    LET e == Given
    IN  /\ PlainSlots(e)
        /\ \E i \in 1..Len(e.a) : normalize(e.a[i]) # e.a[i]
        /\ ~IsErr(out)

\* what the components of mid and right give pair by pair
ComponentInner(i) == eval_innerproduct(right.a[i], mid.a[i])

\* C28: the inner product of a product bra and a product ket of equal arity is
\* 0 when a pair of components gives 0, None when no pair gives 0 and a pair
\* is indeterminate, 1 otherwise, and it is the same for every order of the
\* components
OrderFree ==
    pc = "multiplied" =>
        /\ out = (IF \E i \in 1..Len(right.a) : ComponentInner(i) = Zero THEN Zero
                  ELSE IF \E i \in 1..Len(right.a) : ComponentInner(i) = NoneResult
                  THEN NoneResult
                  ELSE One)
        /\ ref = out

\* an indeterminate pair and a pair that gives 0, multiplied in two orders
OrderFreeWitness ==
    /\ pc = "multiplied"
    /\ seq # [k \in 1..Len(seq) |-> k]
    /\ \E i, j \in 1..Len(right.a) :
          ComponentInner(i) = Zero /\ ComponentInner(j) = NoneResult

\* C29: the permutation operator built from the swaps of P is P, and the
\* inverse of P applied after P gives the product ket back
InverseRoundTrip ==
    /\ pc = "rebuilt" => ref = out
    /\ pc = "inverted" => ref = LabelKet

\* a permutation of three registers has been taken apart and rebuilt
InverseRoundTripWitness ==
    /\ pc \in {"rebuilt", "inverted"}
    /\ out.t = "PermutationOperator" /\ Len(out.p) = 3

\* project_physical has returned from its loop over the factors of a product
ProjectedProduct == pc = "projected" /\ IsMul(Expand(mid, TRUE))

\* the local variables of that call when it returned
Scanned == ProjectFactors(Expand(mid, TRUE), seq[1], seq[2], pos, evaluate)

\* the non-commuting factors of the product that was projected
GivenFactors == NcPart(Expand(mid, TRUE))

\* every factor of the product has a position in ops, and when the product
\* is returned no position holds the placeholder
NoFactorMissing ==
    LET ops == Scanned.ops
    IN  /\ \A i \in 1..Len(GivenFactors) : ExpandPowers(<<GivenFactors[i]>>) # <<>>
        /\ Scanned.returned = NoneResult =>
              /\ Len(ops) = Len(ExpandPowers(GivenFactors))
              /\ \A k \in 1..Len(ops) : ops[k] # NoneResult

\* the factors scanned while the particle number is unknown come first
UndeterminedPrefix ==
    LET calls == Scanned.calls
    IN  \A i, j \in 1..Len(calls) :
            i < j /\ calls[j].r.npart_right = <<>> => calls[i].r.npart_right = <<>>

\* once the first particle number is known, placeholder k holds what the
\* second evaluation of the k-th scanned factor returned, and the second
\* evaluation starts from the first particle number
PlaceholdersFilled ==
    LET ops == Scanned.ops
        recalls == Scanned.recalls
        waiting == Scanned.ops_reeval
    IN  Scanned.returned = NoneResult /\ Scanned.first_npart # <<>> =>
            /\ Len(recalls) = Len(waiting)
            /\ Len(ops) >= Len(waiting)
            /\ \A k \in 1..Len(waiting) :
                  /\ recalls[k].given = waiting[k]
                  /\ ops[k] = recalls[k].r.op
            /\ Len(recalls) > 0 => recalls[1].npart = Scanned.first_npart

\* the product returned is that of the commuting part and of the projected
\* factors, the projection of the leftmost factor first
OriginalOrder ==
    LET calls == Scanned.calls
        recalls == Scanned.recalls
        factors == ExpandPowers(GivenFactors)
        n == Len(factors)
        Final(j) == IF calls[j].r.npart_right = <<>> /\ Scanned.first_npart # <<>>
                    THEN recalls[j].r.op ELSE calls[j].r.op
    IN  Scanned.returned = NoneResult =>
            /\ Len(calls) = n
            /\ \A k \in 1..n : calls[n + 1 - k].given = factors[k]
            /\ ref = MkMul(CPart(Expand(mid, TRUE)) \o [k \in 1..n |-> Final(n + 1 - k)])

\* a factor is handed the left occupancy that the factor to its right returned
OccupancyHandedOn ==
    LET calls == Scanned.calls
        recalls == Scanned.recalls
    IN  /\ Len(calls) > 0 => calls[1].npart = seq[1]
        /\ \A j \in 2..Len(calls) : calls[j].npart = calls[j - 1].r.npart_left
        /\ \A j \in 2..Len(recalls) : recalls[j].npart = recalls[j - 1].r.npart_left

\* a factor that projects to zero makes the result zero
ZeroFactor ==
    LET calls == Scanned.calls
        recalls == Scanned.recalls
    IN  (\/ \E j \in 1..Len(calls) : calls[j].r.op = Zero
         \/ \E j \in 1..Len(recalls) : recalls[j].r.op = Zero) => ref = Zero

\* C30: project_physical over a product scans the non-commuting factors from
\* the right and returns no product with a missing factor: the factors whose
\* particle number is undetermined are a prefix of the scan, their
\* placeholders are filled by the second evaluation, the product returned has
\* the projected factors in their order, every factor is handed the left
\* occupancy of the factor to its right, and a factor that projects to zero
\* makes the result zero
RightToLeftProjection ==
    ProjectedProduct =>
        /\ NoFactorMissing
        /\ UndeterminedPrefix
        /\ PlaceholdersFilled
        /\ OriginalOrder
        /\ OccupancyHandedOn
        /\ ZeroFactor
====
